---- MODULE Spec2Model ----
(***************************************************************************)
(* Balance service (Go + Postgres): ProcessTransaction runs inside one     *)
(* database transaction (pgutils.WithTx) the statements Exists,            *)
(* LockAndGetBalance (SELECT ... FOR UPDATE), IncreaseBalance or           *)
(* DecreaseBalance (UPDATE), and Insert into transactions (primary key     *)
(* transaction_id).  Each concurrent call is one process of the model;     *)
(* every SQL statement, the commit and the rollback are one step each, so  *)
(* that calls interleave at statement boundaries as they do on the         *)
(* database (default isolation level, READ COMMITTED).                     *)
(*                                                                         *)
(* The HTTP layer (internal/api) is a second specification, SpecAPI: the   *)
(* handlers GetBalanceHandler and ProcessTransactionHandler on requests    *)
(* whose fields are character strings, with parseAmountCents and the       *)
(* "%.2f" rendering of the balance computed as the code computes them      *)
(* (int64 and float64 at reduced width), and the service seen through the  *)
(* error values its layers of fmt.Errorf can return.                       *)
(*                                                                         *)
(* SpecCancel adds the cancellation of a caller's context to the callers   *)
(* of ProcessTransaction, SpecRead a reader that calls GetBalance beside   *)
(* them.  SpecQueue is package shutdownqueue: concurrent calls of Add and  *)
(* Shutdown on the queue, each task a step that returns nil, returns an    *)
(* error or panics.                                                        *)
(*                                                                         *)
(* SpecFair is Spec with every call scheduled again and again, SpecRepo    *)
(* the repository functions called one by one, each in a transaction of    *)
(* its own, and SpecMain is run() of cmd/api: the pool and the server it   *)
(* starts, the tasks it adds to the queue and its deferred Shutdown.       *)
(***************************************************************************)
EXTENDS Integers, FiniteSets, Sequences, TLC

\* ---- bounds of the model ----
NumCalls == 2
NumUsers == 2
MaxInitBalance == 1
MaxAmount == 2
NumTxIDs == 2
\* int64 and the significand of float64 (64 and 53 bits), scaled down
IntBits == 12
MantissaBits == 11
MaxAmountLen == 4
\* the calls of shutdownqueue.Add and of shutdownqueue.Shutdown
MaxAdds == 3
NumShutdowns == 2

Calls == 1 .. NumCalls
\* rows of table users; the id NumUsers + 1 has no row
SeededUsers == 1 .. NumUsers
UserIDs == 1 .. (NumUsers + 1)
Amounts == 1 .. MaxAmount
TxIDs == 1 .. NumTxIDs

\* balance.TxState: the two constants, and one value that is neither
TxWin == "win"
TxLose == "lose"
TxStates == {TxWin, TxLose, "bonus"}

\* the sentinel errors, and the kinds of the errors that are none of them
ErrNil == "nil"
ErrUserNotFound == "user not found"
ErrInsufficientFunds == "insufficient funds"
ErrDuplicateTransaction == "duplicate transaction"
ErrInvalidState == "invalid state"
ErrStorage == "storage error"
Errors == {ErrUserNotFound, ErrInsufficientFunds, ErrDuplicateTransaction,
           ErrInvalidState, ErrStorage}

\* balance.Transaction (Source is carried by the handler, never read by the service)
Transaction == [TransactionID : TxIDs, UserID : UserIDs, State : TxStates,
                AmountMinor : Amounts]

NoWrite == -1
NoLock == 0
NoTransaction == [TransactionID |-> 0, UserID |-> 0, State |-> "", AmountMinor |-> 0]

\* ---- strings, integers and floating point as the HTTP layer uses them ----

\* a string is the sequence of its characters
Digit == <<"0", "1", "2", "3", "4", "5", "6", "7", "8", "9">>
IsDigit(c) == \E i \in 1 .. 10 : Digit[i] = c
DigitValue(c) == (CHOOSE i \in 1 .. 10 : Digit[i] = c) - 1

RECURSIVE Pow2(_)
Pow2(k) == IF k = 0 THEN 1 ELSE 2 * Pow2(k - 1)

\* the range of int64 (IntBits wide here)
MaxInt64 == Pow2(IntBits - 1) - 1
MinInt64 == -Pow2(IntBits - 1)
MaxUint64 == Pow2(IntBits) - 1

\* the value a signed integer expression has after it wrapped around
Int64(n) ==
    LET m == n % Pow2(IntBits)
    IN  IF m > MaxInt64 THEN m - Pow2(IntBits) ELSE m

\* unicode.IsSpace on the characters the requests are made of
IsSpace(c) == c \in {" ", "\t"}

RECURSIVE TrimLeft(_)
TrimLeft(s) == IF s # <<>> /\ IsSpace(Head(s)) THEN TrimLeft(Tail(s)) ELSE s

RECURSIVE TrimRight(_)
TrimRight(s) ==
    IF s # <<>> /\ IsSpace(s[Len(s)]) THEN TrimRight(SubSeq(s, 1, Len(s) - 1)) ELSE s

\* strings.TrimSpace
TrimSpace(s) == TrimRight(TrimLeft(s))

\* strings.ToLower on the letters the requests are made of
LowerOf(c) ==
    CASE c = "G" -> "g" [] c = "W" -> "w" [] c = "L" -> "l" [] c = "S" -> "s"
      [] c = "P" -> "p" [] OTHER -> c
ToLower(s) == [i \in 1 .. Len(s) |-> LowerOf(s[i])]

RECURSIVE Split(_, _)
\* strings.Split(s, sep) for a separator of one character
Split(s, sep) ==
    IF \A i \in 1 .. Len(s) : s[i] # sep
    THEN <<s>>
    ELSE LET i == CHOOSE k \in 1 .. Len(s) :
                     s[k] = sep /\ \A j \in 1 .. (k - 1) : s[j] # sep
         IN  <<SubSeq(s, 1, i - 1)>> \o Split(SubSeq(s, i + 1, Len(s)), sep)

\* strings.Repeat
Repeat(c, n) == [i \in 1 .. n |-> c]

RECURSIVE DigitsValue(_)
\* the number a string of digits denotes, capped above the uint64 range
DigitsValue(d) ==
    IF d = <<>> THEN 0
    ELSE LET v == 10 * DigitsValue(SubSeq(d, 1, Len(d) - 1)) + DigitValue(d[Len(d)])
         IN  IF v > MaxUint64 THEN MaxUint64 + 1 ELSE v

\* strconv.ParseInt(s, 10, 64): an optional sign of its own, then digits only;
\* err is TRUE for a syntax error and for a value out of range
ParseInt(s) ==
    LET signed == s # <<>> /\ s[1] \in {"+", "-"}
        digits == IF signed THEN Tail(s) ELSE s
    IN  IF digits = <<>> \/ \E i \in 1 .. Len(digits) : ~IsDigit(digits[i])
        THEN [value |-> 0, err |-> TRUE]
        ELSE LET n == DigitsValue(digits)
                 v == IF s[1] = "-" THEN -n ELSE n
             IN  IF v > MaxInt64 \/ v < MinInt64
                 THEN [value |-> 0, err |-> TRUE]
                 ELSE [value |-> v, err |-> FALSE]

\* strconv.ParseUint(s, 10, 64): digits only
ParseUint(s) ==
    IF s = <<>> \/ \E i \in 1 .. Len(s) : ~IsDigit(s[i])
    THEN [value |-> 0, err |-> TRUE]
    ELSE IF DigitsValue(s) > MaxUint64
    THEN [value |-> 0, err |-> TRUE]
    ELSE [value |-> DigitsValue(s), err |-> FALSE]

\* the results of parseAmountCents: a value with a nil error, an error, or a
\* panic of the goroutine (index out of range)
AmountOK(v) == [value |-> v, err |-> "", panic |-> FALSE]
AmountErr(msg) == [value |-> 0, err |-> msg, panic |-> FALSE]
AmountPanic == [value |-> 0, err |-> "", panic |-> TRUE]

\* parseAmountCents, had it returned total without the test total <= 0
parseAmountCentsAnySign(raw) ==
    LET s == TrimSpace(raw)
        s1 == IF s # <<>> /\ s[1] = "+" THEN Tail(s) ELSE s
        neg == s1 # <<>> /\ s1[1] = "-"
        s2 == IF neg THEN Tail(s1) ELSE s1
        parts == Split(s2, ".")
        frac == IF Len(parts) = 2 THEN parts[2] \o Repeat("0", 2 - Len(parts[2]))
                ELSE <<"0", "0">>
        ip == ParseInt(parts[1])
        fp == ParseInt(frac)
        total == Int64(Int64(ip.value * 100) + fp.value)
    IN  IF s = <<>> THEN AmountErr("amount required")
        ELSE IF s1 = <<>> THEN AmountPanic
        ELSE IF Len(parts) > 2 THEN AmountErr("invalid amount")
        ELSE IF Len(parts) = 2 /\ Len(parts[2]) > 2
        THEN AmountErr("amount supports up to 2 decimals")
        ELSE IF ip.err THEN AmountErr("invalid amount integer")
        ELSE IF fp.err THEN AmountErr("invalid amount fractional")
        ELSE AmountOK(IF neg THEN Int64(-total) ELSE total)

\* parseAmountCents: s[0] is read again after a leading '+' was cut off, which
\* panics when nothing is left; the integer and the fractional part go through
\* strconv.ParseInt; ip*100 + fp and -total wrap around in int64
parseAmountCents(raw) ==
    LET s == TrimSpace(raw)
        s1 == IF s # <<>> /\ s[1] = "+" THEN Tail(s) ELSE s
        neg == s1 # <<>> /\ s1[1] = "-"
        s2 == IF neg THEN Tail(s1) ELSE s1
        parts == Split(s2, ".")
        intPart == parts[1]
        frac == IF Len(parts) = 2 THEN parts[2] \o Repeat("0", 2 - Len(parts[2]))
                ELSE <<"0", "0">>
        ip == ParseInt(intPart)
        fp == ParseInt(frac)
        sum == Int64(Int64(ip.value * 100) + fp.value)
        total == IF neg THEN Int64(-sum) ELSE sum
    IN  IF s = <<>> THEN AmountErr("amount required")
        ELSE IF s1 = <<>> THEN AmountPanic
        ELSE IF Len(parts) > 2 THEN AmountErr("invalid amount")
        ELSE IF Len(parts) = 2 /\ Len(parts[2]) > 2
        THEN AmountErr("amount supports up to 2 decimals")
        ELSE IF ip.err THEN AmountErr("invalid amount integer")
        ELSE IF fp.err THEN AmountErr("invalid amount fractional")
        ELSE IF total <= 0 THEN AmountErr("amount must be > 0")
        ELSE AmountOK(total)

\* round num/den (both positive) to the nearest integer, a tie to the even one
RoundHalfEven(num, den) ==
    LET q == num \div den
        r == num % den
    IN  IF 2 * r < den THEN q
        ELSE IF 2 * r > den THEN q + 1
        ELSE IF q % 2 = 0 THEN q ELSE q + 1

RECURSIVE Nearest(_, _, _)
\* the float64 nearest to (num/den) * 2^e: a significand m of MantissaBits
\* bits and an exponent, of value m * 2^e
Nearest(num, den, e) ==
    IF num = 0 THEN [m |-> 0, e |-> 0]
    ELSE IF num >= Pow2(MantissaBits) * den THEN Nearest(num, 2 * den, e + 1)
    ELSE IF num < Pow2(MantissaBits - 1) * den THEN Nearest(2 * num, den, e - 1)
    ELSE LET m == RoundHalfEven(num, den)
         IN  IF m = Pow2(MantissaBits) THEN [m |-> m \div 2, e |-> e + 1]
             ELSE [m |-> m, e |-> e]

\* the conversion float64(n) of a non-negative int64
float64(n) == Nearest(n, 1, 0)

\* x / y in float64
Quo(x, y) == Nearest(x.m, y.m, x.e - y.e)

RECURSIVE Itoa(_)
\* the decimal digits of a non-negative integer
Itoa(n) == IF n < 10 THEN <<Digit[n + 1]>> ELSE Itoa(n \div 10) \o <<Digit[(n % 10) + 1]>>

\* fmt.Sprintf("%.2f", x): the decimal with two fractional digits nearest to
\* the value of x
Sprintf(x) ==
    LET hundredths == IF x.e >= 0 THEN x.m * Pow2(x.e) * 100
                      ELSE RoundHalfEven(x.m * 100, Pow2(-x.e))
    IN  Itoa(hundredths \div 100)
        \o <<".", Digit[(hundredths % 100) \div 10 + 1], Digit[(hundredths % 10) + 1]>>

\* GetBalanceHandler's "balance": fmt.Sprintf("%.2f", float64(bal)/100.0)
FormatBalance(bal) == Sprintf(Quo(float64(bal), float64(100)))

\* ---- the HTTP layer: requests, the errors of the service, responses ----

SourceGame == "game"
SourceServer == "server"
SourcePayment == "payment"

\* the strings of request fields, as sequences of characters
game == <<"g", "a", "m", "e">>
server == <<"s", "e", "r", "v", "e", "r">>
payment == <<"p", "a", "y", "m", "e", "n", "t">>
win == <<"w", "i", "n">>
lose == <<"l", "o", "s", "e">>

\* the amounts of the requests: every string of up to MaxAmountLen of these
\* characters, and some longer ones
AmountChars == {"0", "1", "4", ".", "+", "-", "a", " "}
AmountStrings == UNION {[1 .. n -> AmountChars] : n \in 0 .. MaxAmountLen}
AmountExamples ==
    {<<"1", ".", "5">>, <<"1", "0", ".", "1", "5">>, <<"1", ".", "2", "3", "4">>,
     <<"a", "b", "c">>, <<"-", "5", ".", "0", "0">>, <<"-", "-", "5">>,
     <<"1", ".", "-", "5">>, <<"9", "9", "9", "9", "9", "9">>}

\* what the other fields of a request may hold
UserIdParams == {<<"1">>, <<"3">>, <<"0">>, <<>>, <<"a">>, <<"-", "1">>}
SourceTypeHeaders == {game, <<" ", "G", "a", "m", "e">>, server, payment, <<>>,
                      <<"b", "e", "t">>}
StateFields == {win, lose, <<"W", "i", "n", " ">>, <<"b", "o", "n", "u", "s">>, <<>>}
TransactionIDFields == {"", "t1"}
\* what dec.Decode makes of the body: io.EOF, another error, a txRequest
BodyKinds == {"empty", "invalid", "object"}

\* POST /user/1/transaction with a valid header, state and transactionId
Post(state, amount) ==
    [method |-> "POST", userId |-> <<"1">>, sourceType |-> game, body |-> "object",
     state |-> state, amount |-> amount, transactionId |-> "t1"]

\* GET /user/{userId}/balance
Get(userId) ==
    [method |-> "GET", userId |-> userId, sourceType |-> <<>>, body |-> "empty",
     state |-> <<>>, amount |-> <<>>, transactionId |-> ""]

Requests ==
    {Get(u) : u \in UserIdParams}
    \cup {Post(s, a) : s \in {win, lose}, a \in AmountStrings \cup AmountExamples}
    \cup [method : {"POST"}, userId : UserIdParams, sourceType : SourceTypeHeaders,
          body : BodyKinds, state : StateFields,
          amount : {<<"1", ".", "5">>, <<"1", ".", "2", "3", "4">>},
          transactionId : TransactionIDFields]

NoRequest == Get(<<>>)
\* no call of the service; no response written
NoCall == [TransactionID |-> "", UserID |-> 0, Source |-> "", State |-> "",
           AmountMinor |-> 0]
NoResponse == [status |-> 0, error |-> "", balance |-> <<>>]

\* an error value: the sentinel or kind at the bottom of the chain, and the
\* fmt.Errorf layers around it, outermost first
New(kind) == [kind |-> kind, chain |-> <<>>]
nil == New(ErrNil)
Errorf(msg, verb, e) == [kind |-> e.kind, chain |-> <<[msg |-> msg, verb |-> verb]>> \o e.chain]

\* errors.Is(e, target): Unwrap follows the layers made with %w only
Is(e, target) ==
    /\ e.kind = target
    /\ \A i \in 1 .. Len(e.chain) : e.chain[i].verb = "%w"

NoResult == [balance |-> 0, err |-> nil]

\* the errors the repositories return
ExistsErrors == {New(ErrUserNotFound), Errorf("check exists", "%w", New(ErrStorage))}
LockAndGetBalanceErrors == {Errorf("lock/get balance", "%w", New(ErrStorage))}
IncreaseBalanceErrors == {Errorf("increase balance", "%w", New(ErrStorage))}
DecreaseBalanceErrors ==
    {New(ErrInsufficientFunds), Errorf("decrease balance", "%w", New(ErrStorage)),
     Errorf("rows affected", "%w", New(ErrStorage))}
InsertErrors ==
    {New(ErrDuplicateTransaction), Errorf("insert transaction", "%w", New(ErrStorage))}
GetBalanceErrors == {New(ErrUserNotFound), Errorf("get balance", "%w", New(ErrStorage))}

\* the errors the function that ProcessTransaction hands to WithTx returns
FnErrors(t) ==
    {Errorf("check user exists", "%w", e) : e \in ExistsErrors}
    \cup {Errorf("lock and get balance", "%w", e) : e \in LockAndGetBalanceErrors}
    \cup (CASE t.State = TxWin ->
                 {Errorf("increase balance", "%w", e) : e \in IncreaseBalanceErrors}
            [] t.State = TxLose ->
                 {Errorf("pre-check decrease", "%w", New(ErrInsufficientFunds))}
                 \cup {Errorf("decrease balance", "%w", e) : e \in DecreaseBalanceErrors}
            [] OTHER -> {New(ErrInvalidState)})
    \cup (IF t.State \in {TxWin, TxLose}
          THEN {Errorf("insert transaction", "%w", e) : e \in InsertErrors}
          ELSE {})

\* WithTx, had it formatted the error of fn with %v when the rollback failed
WithTxErrorsUnwrapped(fnErrors) ==
    {Errorf("begin tx", "%w", New(ErrStorage)), Errorf("commit tx", "%w", New(ErrStorage))}
    \cup {Errorf("fn", "%w", e) : e \in fnErrors}
    \cup {Errorf("rollback after fn error", "%v", e) : e \in fnErrors}

\* the errors pgutils.WithTx returns: of BeginTx, of fn after the rollback, of
\* fn after a rollback that failed too, of Commit
WithTxErrors(fnErrors) ==
    {Errorf("begin tx", "%w", New(ErrStorage)), Errorf("commit tx", "%w", New(ErrStorage))}
    \cup {Errorf("fn", "%w", e) : e \in fnErrors}
    \cup {Errorf("rollback after fn error", "%w", e) : e \in fnErrors}

\* the errors of balanceService.ProcessTransaction and balanceService.GetBalance
ProcessTransactionErrors(t) ==
    {Errorf("process transaction", "%w", e) : e \in WithTxErrors(FnErrors(t))}
ServiceGetBalanceErrors == {Errorf("get balance", "%w", e) : e \in GetBalanceErrors}

\* parseUserIDFromPath
parseUserIDFromPath(r) ==
    LET id == ParseUint(r.userId)
    IN  IF r.userId = <<>> \/ id.err \/ id.value = 0
        THEN [value |-> 0, err |-> TRUE]
        ELSE id

\* parseSourceType
parseSourceType(h) ==
    LET raw == ToLower(TrimSpace(h))
    IN  CASE raw = game -> [value |-> SourceGame, err |-> FALSE]
          [] raw = server -> [value |-> SourceServer, err |-> FALSE]
          [] raw = payment -> [value |-> SourcePayment, err |-> FALSE]
          [] OTHER -> [value |-> "", err |-> TRUE]

\* parseTxState
parseTxState(s) ==
    LET raw == ToLower(TrimSpace(s))
    IN  CASE raw = win -> [value |-> TxWin, err |-> FALSE]
          [] raw = lose -> [value |-> TxLose, err |-> FALSE]
          [] OTHER -> [value |-> "", err |-> TRUE]

\* writeError
WriteError(status, msg) == [status |-> status, error |-> msg, balance |-> <<>>]

\* the switch of ProcessTransactionHandler on the error of the service
ProcessTransactionResponse(e) ==
    IF e = nil THEN [status |-> 200, error |-> "", balance |-> <<>>]
    ELSE IF Is(e, ErrDuplicateTransaction) THEN WriteError(409, "duplicate transaction")
    ELSE IF Is(e, ErrInsufficientFunds) THEN WriteError(409, "insufficient funds")
    ELSE IF Is(e, ErrUserNotFound) THEN WriteError(404, "user not found")
    ELSE WriteError(500, "internal error")

\* the response of GetBalanceHandler to what the service returned
GetBalanceResponse(result) ==
    IF result.err = nil
    THEN [status |-> 200, error |-> "", balance |-> FormatBalance(result.balance)]
    ELSE IF Is(result.err, ErrUserNotFound) THEN WriteError(404, "user not found")
    ELSE WriteError(500, "internal error")

VARIABLES
    users,        \* committed table users: id -> balance
    transactions, \* committed table transactions: set of [transaction_id, user_id]
    rowLock,      \* users row -> the call whose open transaction holds its row lock
    pc,           \* call -> the statement it executes next
    transaction,  \* call -> the argument of ProcessTransaction
    balance,      \* call -> the value LockAndGetBalance returned
    written,      \* call -> uncommitted balance its transaction wrote to its users row
    inserted,     \* call -> TRUE when its transaction holds an uncommitted transactions row
    err,          \* call -> the error of fn, then of ProcessTransaction
    replay,       \* call -> TRUE when its TransactionID was committed before it arrived
    seeded,       \* the balances the users were provisioned with
    lockOrder,    \* users row -> the calls in the order in which they took its row lock
    ctx,          \* call -> "live", or "canceled" once its context is done
    request,      \* the HTTP request the handler serves
    httpPc,       \* where the handler is: "idle", "serve", "service", "done"
    svcCall,      \* the argument the handler passed to the service
    svcResult,    \* what the service returned to the handler
    response,     \* what the handler wrote to the client
    queue,        \* the shutdown queue q: [tasks, closed]
    shutdown,     \* call of Shutdown -> its frame: position, tasks taken, errs, context
    events,       \* what the queue has done: tasks added, started and ended, in order
    main          \* run() of cmd/api: where it is, the pool, the server, why it returns

vars == <<users, transactions, rowLock, pc, transaction, balance, written,
          inserted, err, replay, seeded, lockOrder, ctx>>

\* the variables of the HTTP layer
httpVars == <<request, httpPc, svcCall, svcResult, response>>

\* the variables of package shutdownqueue and of the process that drains it
queueVars == <<queue, shutdown, events, main>>

TypeOK ==
    /\ users \in [SeededUsers -> Int]
    /\ transactions \subseteq [transaction_id : TxIDs, user_id : UserIDs]
    /\ rowLock \in [SeededUsers -> Calls \cup {NoLock}]
    /\ pc \in [Calls -> {"idle", "exists", "lock", "apply", "unit", "insert", "commit",
                         "rollback", "done"}]
    /\ transaction \in [Calls -> Transaction \cup {NoTransaction}]
    /\ balance \in [Calls -> Int]
    /\ written \in [Calls -> Int]
    /\ inserted \in [Calls -> BOOLEAN]
    /\ err \in [Calls -> Errors \cup {ErrNil}]
    /\ replay \in [Calls -> BOOLEAN]
    /\ seeded \in [SeededUsers -> 0 .. MaxInitBalance]
    /\ lockOrder \in [SeededUsers -> Seq(Calls)]
    /\ ctx \in [Calls -> {"live", "canceled"}]

\* ---- package shutdownqueue: the data ----

\* the calls of Shutdown, and the tasks by the number of the Add that passed them
ShutdownCalls == 1 .. NumShutdowns
Tasks == 1 .. MaxAdds
\* Add(nil)
nilTask == 0

\* what a task does when it is run
TaskOutcomes == {"nil", "error", "panic"}

\* the frame of a call of Shutdown that has not been made
NoFrame == [pc |-> "idle", tasks |-> <<>>, i |-> 0, errs |-> <<>>, done |-> FALSE,
            ret |-> <<>>]

\* run() of cmd/api before its first statement: no pool, no server
NoRun == [pc |-> "load", db |-> "none", srv |-> "none", cause |-> ""]

\* func init(): an empty queue that is not closed; no call of Shutdown yet
NoQueue ==
    /\ queue = [tasks |-> <<>>, closed |-> FALSE]
    /\ shutdown = [c \in ShutdownCalls |-> NoFrame]
    /\ events = <<>>
    /\ main = NoRun

\* the database with the accounts funded and no call in progress
Provisioned ==
    /\ users \in [SeededUsers -> 0 .. MaxInitBalance]
    /\ seeded = users
    /\ transactions = {}
    /\ rowLock = [u \in SeededUsers |-> NoLock]
    /\ pc = [p \in Calls |-> "idle"]
    /\ transaction = [p \in Calls |-> NoTransaction]
    /\ balance = [p \in Calls |-> 0]
    /\ written = [p \in Calls |-> NoWrite]
    /\ inserted = [p \in Calls |-> FALSE]
    /\ err = [p \in Calls |-> ErrNil]
    /\ replay = [p \in Calls |-> FALSE]
    /\ lockOrder = [u \in SeededUsers |-> <<>>]
    /\ ctx = [p \in Calls |-> "live"]

Init ==
    /\ Provisioned
    /\ request = NoRequest
    /\ httpPc = "idle"
    /\ svcCall = NoCall
    /\ svcResult = NoResult
    /\ response = NoResponse
    /\ NoQueue

\* ---- the storage substrate: rows, row locks, the primary key ----

\* CHECK (balance >= 0) of table users
BalanceCheck(b) == b >= 0

\* the version of the users row a statement of call p sees: its own
\* uncommitted write, else the committed row
RowBalance(p, u) == IF written[p] # NoWrite THEN written[p] ELSE users[u]

\* RowFree, were the row locks of other transactions not waited for
RowNeverWaits(p, u) == TRUE

\* a statement of p that locks or updates row u waits while another open
\* transaction holds the row lock
RowFree(p, u) == u \in SeededUsers => rowLock[u] \in {NoLock, p}

\* Released, were the row locks of a transaction to outlive it
NotReleased(p) == rowLock

\* the row locks as they are after the transaction of p has ended
Released(p) == [u \in SeededUsers |-> IF rowLock[u] = p THEN NoLock ELSE rowLock[u]]

\* the order of the row locks of u, with the lock call p has just been granted
Locked(p, u) == [lockOrder EXCEPT ![u] = Append(@, p)]

\* fn returns e: WithTx goes on to tx.Rollback()
Fail(p, e) ==
    /\ pc' = [pc EXCEPT ![p] = "rollback"]
    /\ err' = [err EXCEPT ![p] = e]

\* a committed row of transactions has this primary key
KeyCommitted(txid) == \E r \in transactions : r.transaction_id = txid

\* ---- pgutils.WithTx and the statements of ProcessTransaction ----

\* db.BeginTx: call p enters ProcessTransaction with argument t; calls are
\* numbered in the order in which they arrive
BeginTx(p, t) ==
    /\ pc[p] = "idle"
    /\ p > 1 => pc[p - 1] # "idle"
    /\ transaction' = [transaction EXCEPT ![p] = t]
    /\ replay' = [replay EXCEPT ![p] = KeyCommitted(t.TransactionID)]
    /\ \/ /\ pc' = [pc EXCEPT ![p] = "exists"]
          /\ UNCHANGED err
       \/ \* "begin tx": no transaction was opened
          /\ pc' = [pc EXCEPT ![p] = "done"]
          /\ err' = [err EXCEPT ![p] = ErrStorage]
    /\ UNCHANGED <<users, transactions, rowLock, balance, written, inserted, seeded>>
    /\ UNCHANGED <<lockOrder, ctx, httpVars, queueVars>>

\* Exists, had it returned nil whether or not the row exists
ExistsAlwaysFound(p) ==
    /\ pc[p] = "exists"
    /\ \/ /\ pc' = [pc EXCEPT ![p] = "lock"]
          /\ UNCHANGED err
       \/ Fail(p, ErrStorage)
    /\ UNCHANGED <<users, transactions, rowLock, transaction, balance, written,
                   inserted, replay, seeded>>
    /\ UNCHANGED <<lockOrder, ctx, httpVars, queueVars>>

\* SELECT EXISTS(SELECT 1 FROM users WHERE id = $1)
Exists(p) ==
    /\ pc[p] = "exists"
    /\ \/ /\ transaction[p].UserID \in SeededUsers
          /\ pc' = [pc EXCEPT ![p] = "lock"]
          /\ UNCHANGED err
       \/ /\ transaction[p].UserID \notin SeededUsers
          /\ Fail(p, ErrUserNotFound)
       \/ Fail(p, ErrStorage)
    /\ UNCHANGED <<users, transactions, rowLock, transaction, balance, written,
                   inserted, replay, seeded>>
    /\ UNCHANGED <<lockOrder, ctx, httpVars, queueVars>>

\* LockAndGetBalance, had the SELECT been without FOR UPDATE
LockAndGetBalanceNoLock(p) ==
    /\ pc[p] = "lock"
    /\ \/ IF transaction[p].UserID \in SeededUsers
          THEN /\ balance' = [balance EXCEPT ![p] = users[transaction[p].UserID]]
               /\ lockOrder' = Locked(p, transaction[p].UserID)
               /\ pc' = [pc EXCEPT ![p] = "apply"]
               /\ UNCHANGED err
          ELSE /\ Fail(p, ErrStorage)
               /\ UNCHANGED <<balance, lockOrder>>
       \/ /\ Fail(p, ErrStorage)
          /\ UNCHANGED <<balance, lockOrder>>
    /\ UNCHANGED <<users, transactions, rowLock, transaction, written, inserted, replay,
                   seeded>>
    /\ UNCHANGED <<ctx, httpVars, queueVars>>

\* SELECT balance FROM users WHERE id = $1 FOR UPDATE
LockAndGetBalance(p) ==
    /\ pc[p] = "lock"
    /\ \/ LET u == transaction[p].UserID IN
          /\ RowFree(p, u)
          /\ IF u \in SeededUsers
             THEN /\ rowLock' = [rowLock EXCEPT ![u] = p]
                  /\ lockOrder' = Locked(p, u)
                  /\ balance' = [balance EXCEPT ![p] = RowBalance(p, u)]
                  /\ pc' = [pc EXCEPT ![p] = "apply"]
                  /\ UNCHANGED err
             ELSE \* sql.ErrNoRows
                  /\ Fail(p, ErrStorage)
                  /\ UNCHANGED <<rowLock, balance, lockOrder>>
       \/ /\ Fail(p, ErrStorage)
          /\ UNCHANGED <<rowLock, balance, lockOrder>>
    /\ UNCHANGED <<users, transactions, transaction, written, inserted, replay, seeded>>
    /\ UNCHANGED <<ctx, httpVars, queueVars>>

\* IncreaseBalance, had the statement been SET balance = $2
IncreaseBalanceSets(p) ==
    /\ pc[p] = "apply"
    /\ transaction[p].State = TxWin
    /\ LET u == transaction[p].UserID IN
       /\ RowFree(p, u)
       /\ rowLock' = [rowLock EXCEPT ![u] = p]
       /\ written' = [written EXCEPT ![p] = transaction[p].AmountMinor]
       /\ pc' = [pc EXCEPT ![p] = "insert"]
    /\ UNCHANGED <<users, transactions, transaction, balance, inserted, err, replay, seeded>>
    /\ UNCHANGED <<lockOrder, ctx, httpVars, queueVars>>

\* UsersIncreaseBalance, were an UPDATE that affects no row ErrUserNotFound
UsersIncreaseBalanceChecked(p, then) ==
    \/ LET u == transaction[p].UserID
           new == RowBalance(p, u) + transaction[p].AmountMinor
       IN  /\ RowFree(p, u)
           /\ IF u \notin SeededUsers
              THEN /\ Fail(p, ErrUserNotFound)
                   /\ UNCHANGED <<rowLock, written>>
              ELSE IF ~BalanceCheck(new)
              THEN /\ Fail(p, ErrStorage)
                   /\ UNCHANGED <<rowLock, written>>
              ELSE /\ pc' = [pc EXCEPT ![p] = then]
                   /\ rowLock' = [rowLock EXCEPT ![u] = p]
                   /\ written' = [written EXCEPT ![p] = new]
                   /\ UNCHANGED err
    \/ /\ Fail(p, ErrStorage)
       /\ UNCHANGED <<rowLock, written>>

\* usersRepo.IncreaseBalance in the transaction of p, which goes on to then:
\* UPDATE users SET balance = balance + $2 WHERE id = $1; nil whatever the
\* number of rows affected
UsersIncreaseBalance(p, then) ==
    \/ LET u == transaction[p].UserID
           new == RowBalance(p, u) + transaction[p].AmountMinor
       IN  /\ RowFree(p, u)
           /\ IF u \in SeededUsers /\ ~BalanceCheck(new)
              THEN /\ Fail(p, ErrStorage)
                   /\ UNCHANGED <<rowLock, written>>
              ELSE /\ pc' = [pc EXCEPT ![p] = then]
                   /\ IF u \in SeededUsers
                      THEN /\ rowLock' = [rowLock EXCEPT ![u] = p]
                           /\ written' = [written EXCEPT ![p] = new]
                      ELSE UNCHANGED <<rowLock, written>>
                   /\ UNCHANGED err
    \/ /\ Fail(p, ErrStorage)
       /\ UNCHANGED <<rowLock, written>>

\* case TxWin
IncreaseBalance(p) ==
    /\ pc[p] = "apply"
    /\ transaction[p].State = TxWin
    /\ UsersIncreaseBalance(p, "insert")
    /\ UNCHANGED <<users, transactions, transaction, balance, inserted, replay, seeded>>
    /\ UNCHANGED <<lockOrder, ctx, httpVars, queueVars>>

\* UPDATE users SET balance = balance - $2 WHERE id = $1 AND balance >= $2:
\* the number of rows affected
RowsAffected(p, u, amount) ==
    IF u \in SeededUsers /\ RowBalance(p, u) >= amount THEN 1 ELSE 0

\* case TxLose, had it updated the row as case TxWin does, on a column without CHECK
DecreaseBalanceUnguarded(p) ==
    /\ pc[p] = "apply"
    /\ transaction[p].State = TxLose
    /\ LET u == transaction[p].UserID IN
       /\ RowFree(p, u)
       /\ rowLock' = [rowLock EXCEPT ![u] = p]
       /\ written' = [written EXCEPT ![p] = RowBalance(p, u) - transaction[p].AmountMinor]
       /\ pc' = [pc EXCEPT ![p] = "insert"]
    /\ UNCHANGED <<users, transactions, transaction, balance, inserted, err, replay, seeded>>
    /\ UNCHANGED <<lockOrder, ctx, httpVars, queueVars>>

\* UsersDecreaseBalance, were the UPDATE without AND balance >= $2, on a
\* column without CHECK
UsersDecreaseBalanceUnguarded(p, then) ==
    LET u == transaction[p].UserID IN
    /\ RowFree(p, u)
    /\ pc' = [pc EXCEPT ![p] = then]
    /\ IF u \in SeededUsers
       THEN /\ rowLock' = [rowLock EXCEPT ![u] = p]
            /\ written' = [written EXCEPT ![p] = RowBalance(p, u) - transaction[p].AmountMinor]
       ELSE UNCHANGED <<rowLock, written>>
    /\ UNCHANGED err

\* usersRepo.DecreaseBalance in the transaction of p, which goes on to then: the guarded UPDATE,
\* ErrInsufficientFunds when it affects no row
UsersDecreaseBalance(p, then) ==
    \/ LET u == transaction[p].UserID
           amount == transaction[p].AmountMinor
       IN  /\ RowFree(p, u)
           /\ IF RowsAffected(p, u, amount) = 0
              THEN /\ Fail(p, ErrInsufficientFunds)
                   /\ UNCHANGED <<rowLock, written>>
              ELSE /\ rowLock' = [rowLock EXCEPT ![u] = p]
                   /\ written' = [written EXCEPT ![p] = RowBalance(p, u) - amount]
                   /\ pc' = [pc EXCEPT ![p] = then]
                   /\ UNCHANGED err
    \/ /\ Fail(p, ErrStorage)
       /\ UNCHANGED <<rowLock, written>>

\* DecreaseBalance, were the transactionId looked up before the pre-check
DecreaseBalanceDuplicateFirst(p) ==
    /\ pc[p] = "apply"
    /\ transaction[p].State = TxLose
    /\ \/ /\ KeyCommitted(transaction[p].TransactionID)
          /\ Fail(p, ErrDuplicateTransaction)
          /\ UNCHANGED <<rowLock, written>>
       \/ /\ ~KeyCommitted(transaction[p].TransactionID)
          /\ balance[p] < transaction[p].AmountMinor
          /\ Fail(p, ErrInsufficientFunds)
          /\ UNCHANGED <<rowLock, written>>
       \/ /\ ~KeyCommitted(transaction[p].TransactionID)
          /\ ~(balance[p] < transaction[p].AmountMinor)
          /\ UsersDecreaseBalance(p, "insert")
    /\ UNCHANGED <<users, transactions, transaction, balance, inserted, replay, seeded>>
    /\ UNCHANGED <<lockOrder, ctx, httpVars, queueVars>>

\* case TxLose: the pre-check against the locked balance, then DecreaseBalance
DecreaseBalance(p) ==
    /\ pc[p] = "apply"
    /\ transaction[p].State = TxLose
    /\ \/ /\ balance[p] < transaction[p].AmountMinor
          /\ Fail(p, ErrInsufficientFunds)
          /\ UNCHANGED <<rowLock, written>>
       \/ /\ ~(balance[p] < transaction[p].AmountMinor)
          /\ UsersDecreaseBalance(p, "insert")
    /\ UNCHANGED <<users, transactions, transaction, balance, inserted, replay, seeded>>
    /\ UNCHANGED <<lockOrder, ctx, httpVars, queueVars>>

\* default: of the switch on transaction.State
InvalidState(p) ==
    /\ pc[p] = "apply"
    /\ transaction[p].State \notin {TxWin, TxLose}
    /\ Fail(p, ErrInvalidState)
    /\ UNCHANGED <<users, transactions, rowLock, transaction, balance, written,
                   inserted, replay, seeded>>
    /\ UNCHANGED <<lockOrder, ctx, httpVars, queueVars>>

\* another open transaction has inserted this primary key and not yet ended
KeyInFlight(p, txid) ==
    \E q \in Calls \ {p} : inserted[q] /\ transaction[q].TransactionID = txid

\* Insert, were the key of table transactions (transaction_id, user_id)
InsertPerAccountKey(p) ==
    /\ pc[p] = "insert"
    /\ LET t == transaction[p] IN
       /\ ~\E q \in Calls \ {p} :
              /\ inserted[q]
              /\ transaction[q].TransactionID = t.TransactionID
              /\ transaction[q].UserID = t.UserID
       /\ IF [transaction_id |-> t.TransactionID, user_id |-> t.UserID] \in transactions
          THEN /\ Fail(p, ErrDuplicateTransaction)
               /\ UNCHANGED inserted
          ELSE /\ inserted' = [inserted EXCEPT ![p] = TRUE]
               /\ pc' = [pc EXCEPT ![p] = "commit"]
               /\ UNCHANGED err
    /\ UNCHANGED <<users, transactions, rowLock, transaction, balance, written, replay,
                   seeded>>
    /\ UNCHANGED <<lockOrder, ctx, httpVars, queueVars>>

\* Insert, had fn gone on to commit without the INSERT
InsertSkipped(p) ==
    /\ pc[p] = "insert"
    /\ pc' = [pc EXCEPT ![p] = "commit"]
    /\ UNCHANGED <<users, transactions, rowLock, transaction, balance, written, inserted,
                   err, replay, seeded>>
    /\ UNCHANGED <<lockOrder, ctx, httpVars, queueVars>>

\* Insert, were a key that an open transaction has inserted a unique_violation
\* at once, instead of a wait for that transaction to end
InsertNoWait(p) ==
    /\ pc[p] = "insert"
    /\ LET txid == transaction[p].TransactionID IN
       IF KeyCommitted(txid) \/ KeyInFlight(p, txid)
       THEN /\ Fail(p, ErrDuplicateTransaction)
            /\ UNCHANGED inserted
       ELSE /\ inserted' = [inserted EXCEPT ![p] = TRUE]
            /\ pc' = [pc EXCEPT ![p] = "commit"]
            /\ UNCHANGED err
    /\ UNCHANGED <<users, transactions, rowLock, transaction, balance, written, replay,
                   seeded>>
    /\ UNCHANGED <<lockOrder, ctx, httpVars, queueVars>>

\* Insert, were user_id without REFERENCES users(id)
InsertNoForeignKey(p) ==
    /\ pc[p] = "insert"
    /\ \/ LET txid == transaction[p].TransactionID IN
          /\ ~KeyInFlight(p, txid)
          /\ IF KeyCommitted(txid)
             THEN /\ Fail(p, ErrDuplicateTransaction)
                  /\ UNCHANGED inserted
             ELSE /\ inserted' = [inserted EXCEPT ![p] = TRUE]
                  /\ pc' = [pc EXCEPT ![p] = "commit"]
                  /\ UNCHANGED err
       \/ /\ Fail(p, ErrStorage)
          /\ UNCHANGED inserted
    /\ UNCHANGED <<users, transactions, rowLock, transaction, balance, written, replay,
                   seeded>>
    /\ UNCHANGED <<lockOrder, ctx, httpVars, queueVars>>

\* INSERT INTO transactions (transaction_id, user_id) VALUES ($1, $2): the
\* insert waits for an open transaction that inserted the same key; a
\* committed key is a unique_violation (23505), a user_id without users row a
\* foreign-key violation
Insert(p) ==
    /\ pc[p] = "insert"
    /\ \/ LET txid == transaction[p].TransactionID IN
          /\ ~KeyInFlight(p, txid)
          /\ IF KeyCommitted(txid)
             THEN /\ Fail(p, ErrDuplicateTransaction)
                  /\ UNCHANGED inserted
             ELSE IF transaction[p].UserID \notin SeededUsers
             THEN /\ Fail(p, ErrStorage)
                  /\ UNCHANGED inserted
             ELSE /\ inserted' = [inserted EXCEPT ![p] = TRUE]
                  /\ pc' = [pc EXCEPT ![p] = "commit"]
                  /\ UNCHANGED err
       \/ /\ Fail(p, ErrStorage)
          /\ UNCHANGED inserted
    /\ UNCHANGED <<users, transactions, rowLock, transaction, balance, written, replay,
                   seeded>>
    /\ UNCHANGED <<lockOrder, ctx, httpVars, queueVars>>

\* the transaction of p ends: its local state is gone, its locks are released
EndTx(p) ==
    /\ pc' = [pc EXCEPT ![p] = "done"]
    /\ rowLock' = Released(p)
    /\ balance' = [balance EXCEPT ![p] = 0]
    /\ written' = [written EXCEPT ![p] = NoWrite]
    /\ inserted' = [inserted EXCEPT ![p] = FALSE]

\* the rows of p's transaction become the committed rows
CommittedUsers(p) ==
    IF written[p] # NoWrite
    THEN [users EXCEPT ![transaction[p].UserID] = written[p]]
    ELSE users

CommittedTransactions(p) ==
    IF inserted[p]
    THEN transactions \cup {[transaction_id |-> transaction[p].TransactionID,
                             user_id |-> transaction[p].UserID]}
    ELSE transactions

\* Commit, were a commit that reports an error applied all the same
CommitFailureApplied(p) ==
    /\ pc[p] = "commit"
    /\ users' = CommittedUsers(p)
    /\ transactions' = CommittedTransactions(p)
    /\ \/ UNCHANGED err
       \/ err' = [err EXCEPT ![p] = ErrStorage]
    /\ EndTx(p)
    /\ UNCHANGED <<transaction, replay, seeded>>
    /\ UNCHANGED <<lockOrder, ctx, httpVars, queueVars>>

\* tx.Commit() after fn returned nil
Commit(p) ==
    /\ pc[p] = "commit"
    /\ \/ /\ users' = CommittedUsers(p)
          /\ transactions' = CommittedTransactions(p)
          /\ UNCHANGED err
       \/ \* "commit tx": the commit failed, nothing of the transaction persists
          /\ err' = [err EXCEPT ![p] = ErrStorage]
          /\ UNCHANGED <<users, transactions>>
    /\ EndTx(p)
    /\ UNCHANGED <<transaction, replay, seeded>>
    /\ UNCHANGED <<lockOrder, ctx, httpVars, queueVars>>

\* Rollback, had WithTx ended the transaction by tx.Commit() on the error path too
RollbackCommits(p) ==
    /\ pc[p] = "rollback"
    /\ users' = CommittedUsers(p)
    /\ transactions' = CommittedTransactions(p)
    /\ EndTx(p)
    /\ UNCHANGED <<transaction, err, replay, seeded>>
    /\ UNCHANGED <<lockOrder, ctx, httpVars, queueVars>>

\* tx.Rollback() after fn returned an error, which WithTx returns wrapped
Rollback(p) ==
    /\ pc[p] = "rollback"
    /\ EndTx(p)
    /\ UNCHANGED <<users, transactions, transaction, err, replay, seeded>>
    /\ UNCHANGED <<lockOrder, ctx, httpVars, queueVars>>

ProcessTransaction(p) ==
    \/ \E t \in Transaction : BeginTx(p, t)
    \/ Exists(p)
    \/ LockAndGetBalance(p)
    \/ IncreaseBalance(p)
    \/ DecreaseBalance(p)
    \/ InvalidState(p)
    \/ Insert(p)
    \/ Commit(p)
    \/ Rollback(p)

Next == \E p \in Calls : ProcessTransaction(p)

Spec == Init /\ [][Next]_<<vars, httpVars, queueVars>>

\* ---- the HTTP handlers ----

\* the service is not entered, the ledger stays as it is
Responds(resp) ==
    /\ httpPc' = "done"
    /\ response' = resp

\* GetBalanceHandler: the whole handler, with what svc.GetBalance returns
GetBalanceHandler ==
    /\ httpPc = "serve"
    /\ request.method = "GET"
    /\ LET userID == parseUserIDFromPath(request) IN
       IF userID.err
       THEN /\ Responds(WriteError(400, "invalid userId in path"))
            /\ UNCHANGED <<svcCall, svcResult>>
       ELSE /\ svcCall' = [NoCall EXCEPT !.UserID = userID.value]
            /\ \E result \in [balance : 0 .. MaxInt64, err : {nil}]
                             \cup [balance : {0}, err : ServiceGetBalanceErrors] :
                  /\ svcResult' = result
                  /\ Responds(GetBalanceResponse(result))
    /\ UNCHANGED <<request, vars, queueVars>>

\* what ProcessTransaction reads of its argument: TransactionID, UserID,
\* State and AmountMinor; no statement of it names transaction.Source
ReadsSource(tx) == tx

Reads(tx) ==
    [TransactionID |-> tx.TransactionID, UserID |-> tx.UserID, State |-> tx.State,
     AmountMinor |-> tx.AmountMinor]

\* ProcessTransactionHandler on request r: the argument it passes to the
\* service, what the service returns and the response it writes, or the
\* response it writes without calling the service; a panic of
\* parseAmountCents ends the request with no response written
Handled(r) ==
    LET userID == parseUserIDFromPath(r)
        source == parseSourceType(r.sourceType)
        state == parseTxState(r.state)
        amountCents == parseAmountCents(r.amount)
        tx == [TransactionID |-> r.transactionId, UserID |-> userID.value,
               Source |-> source.value, State |-> state.value,
               AmountMinor |-> amountCents.value]
        rejected ==
            IF userID.err THEN WriteError(400, "invalid userId in path")
            ELSE IF source.err THEN WriteError(400, "invalid Source-Type header")
            ELSE IF r.body = "empty" THEN WriteError(400, "empty body")
            ELSE IF r.body = "invalid" THEN WriteError(400, "invalid JSON")
            ELSE IF state.err THEN WriteError(400, "invalid state")
            ELSE IF amountCents.panic THEN NoResponse
            ELSE IF amountCents.err # "" THEN WriteError(400, amountCents.err)
            ELSE IF r.transactionId = ""
            THEN WriteError(400, "transactionId required")
            ELSE [status |-> 200, error |-> "", balance |-> <<>>]
    IN  IF rejected.status # 200
        THEN {[call |-> NoCall, result |-> NoResult, response |-> rejected]}
        ELSE {[call |-> tx, result |-> [balance |-> 0, err |-> e],
               response |-> ProcessTransactionResponse(e)] :
                  e \in {nil} \cup ProcessTransactionErrors(Reads(tx))}

\* ProcessTransactionHandler: the whole handler, with what
\* svc.ProcessTransaction returns
ProcessTransactionHandler ==
    /\ httpPc = "serve"
    /\ request.method = "POST"
    /\ \E o \in Handled(request) :
          /\ svcCall' = o.call
          /\ svcResult' = o.result
          /\ Responds(o.response)
    /\ UNCHANGED <<request, vars, queueVars>>

\* the client posts the balance it was given back as the amount of a transaction
PostBalance ==
    /\ httpPc = "done"
    /\ request.method = "GET"
    /\ response.status = 200
    /\ \E state \in {win, lose} : request' = Post(state, response.balance)
    /\ httpPc' = "serve"
    /\ svcCall' = NoCall
    /\ svcResult' = NoResult
    /\ response' = NoResponse
    /\ UNCHANGED <<vars, queueVars>>

NextAPI ==
    \/ GetBalanceHandler
    \/ ProcessTransactionHandler
    \/ PostBalance

\* the server with one request at a time, on the database as the migrator seeds it
InitAPI ==
    /\ Provisioned
    /\ users = [u \in SeededUsers |-> 0]
    /\ request \in Requests
    /\ httpPc = "serve"
    /\ svcCall = NoCall
    /\ svcResult = NoResult
    /\ response = NoResponse
    /\ NoQueue

SpecAPI == InitAPI /\ [][NextAPI]_<<vars, httpVars, queueVars>>

\* ---- what the calls have done, for the properties below ----

RECURSIVE Sum(_, _)
\* the sum of f[p] over the calls p of S
Sum(f, S) == IF S = {} THEN 0 ELSE LET p == CHOOSE x \in S : TRUE IN f[p] + Sum(f, S \ {p})

\* the calls that returned nil on account u with the given State
Applied(u, state) ==
    {p \in Calls : /\ pc[p] = "done" /\ err[p] = ErrNil
                   /\ transaction[p].UserID = u /\ transaction[p].State = state}

AmountOf == [p \in Calls |-> transaction[p].AmountMinor]

Succeeded(p) == pc[p] = "done" /\ err[p] = ErrNil
Returned(p, e) == pc[p] = "done" /\ err[p] = e

\* p takes a step
Step(p) == pc'[p] # pc[p]

Valid(p) == transaction[p].UserID \in SeededUsers /\ transaction[p].State \in {TxWin, TxLose}

SameTxID(p, q) == transaction[p].TransactionID = transaction[q].TransactionID

\* C1: a call that arrives after its transactionId was committed (the second
\* of two calls in sequence, on the same or on another account, of any kind
\* and amount) changes no committed balance and no transaction record at any
\* of its steps: what it wrote inside its unit of work is rolled back.
C1_SecondCallChangesNothing ==
    [][\A p \in Calls :
          replay[p] /\ Step(p) => users' = users /\ transactions' = transactions]_vars

\* the second of two calls in sequence with one transactionId, a win on
\* another account, has returned duplicate, and the balances are those the
\* first call left
C1_Witness ==
    \E p, q \in Calls :
        /\ Succeeded(p) /\ replay[q] /\ SameTxID(p, q)
        /\ Returned(q, ErrDuplicateTransaction)
        /\ transaction[q].State = TxWin
        /\ transaction[q].UserID # transaction[p].UserID
        /\ transaction[p].State = TxWin
        /\ users = [seeded EXCEPT ![transaction[p].UserID] = @ + transaction[p].AmountMinor]

\* C2: a valid call (existing account, win or lose) that arrives after its
\* transactionId was committed, and that meets no storage failure, returns
\* ErrDuplicateTransaction whatever the balance of its account.
C2_LaterCallReturnsDuplicate ==
    \A p \in Calls :
        pc[p] = "done" /\ replay[p] /\ Valid(p) /\ err[p] # ErrStorage
            => err[p] = ErrDuplicateTransaction

\* C3: the committed balance of every account is >= 0 in every reachable state.
C3_BalanceNonNegative == \A u \in SeededUsers : users[u] >= 0

\* a lose has brought an account to exactly 0 and a lose on it was refused
C3_Witness ==
    \E p, q \in Calls :
        /\ Succeeded(p) /\ transaction[p].State = TxLose
        /\ users[transaction[p].UserID] = 0
        /\ Returned(q, ErrInsufficientFunds)
        /\ transaction[q].UserID = transaction[p].UserID

\* C4: a lose whose amount exceeds the balance of its account is refused with
\* ErrInsufficientFunds when it is applied, and no step of a call refused
\* this way changes a committed balance or the transaction records, nor
\* leaves a record of its transactionId behind.
C4_LoseAboveBalanceRefused ==
    [][\A p \in Calls :
          /\ ( /\ pc[p] = "apply" /\ Step(p)
               /\ transaction[p].State = TxLose
               /\ users[transaction[p].UserID] < transaction[p].AmountMinor )
             => pc'[p] = "rollback" /\ err'[p] = ErrInsufficientFunds
          /\ (err'[p] = ErrInsufficientFunds /\ Step(p))
             => /\ users' = users /\ transactions' = transactions
                /\ ~inserted'[p]
                /\ pc'[p] = "done" => written'[p] = NoWrite]_vars

\* a lose above the balance was refused, and the other call then used the
\* same transactionId with success
C4_Witness ==
    \E p, q \in Calls :
        /\ Returned(p, ErrInsufficientFunds)
        /\ transaction[p].AmountMinor > seeded[transaction[p].UserID]
        /\ p < q /\ Succeeded(q) /\ SameTxID(p, q) /\ ~replay[q]
        /\ transaction[q].UserID = transaction[p].UserID
        /\ transaction[q].State = TxLose

\* C5: of two lose calls with distinct transactionIds on one account, each
\* not above the balance and together above it, with no other call begun and
\* no storage failure, exactly one returns nil and the other
\* ErrInsufficientFunds; and the amounts of the loses that returned nil on an
\* account never sum to more than the balance it was provisioned with plus
\* the wins that returned nil on it.
C5_ConcurrentLoses ==
    /\ \A p, q \in Calls :
          ( /\ p # q /\ pc[p] = "done" /\ pc[q] = "done"
            /\ \A r \in Calls \ {p, q} : pc[r] = "idle"
            /\ transaction[p].State = TxLose /\ transaction[q].State = TxLose
            /\ transaction[p].UserID = transaction[q].UserID
            /\ transaction[p].UserID \in SeededUsers
            /\ ~SameTxID(p, q)
            /\ transaction[p].AmountMinor <= seeded[transaction[p].UserID]
            /\ transaction[q].AmountMinor <= seeded[transaction[p].UserID]
            /\ transaction[p].AmountMinor + transaction[q].AmountMinor
                  > seeded[transaction[p].UserID]
            /\ err[p] # ErrStorage /\ err[q] # ErrStorage )
          => {err[p], err[q]} = {ErrNil, ErrInsufficientFunds}
    /\ \A u \in SeededUsers :
          Sum(AmountOf, Applied(u, TxLose)) <= seeded[u] + Sum(AmountOf, Applied(u, TxWin))

\* the call that arrived second has decreased the balance and committed while
\* the first, a lose on the same account that the balance covered when it
\* arrived, was in flight; the first was then refused
C5_Witness ==
    \E p, q \in Calls :
        /\ p < q /\ Succeeded(q) /\ ~SameTxID(p, q)
        /\ pc[p] = "rollback" /\ err[p] = ErrInsufficientFunds
        /\ transaction[p].State = TxLose /\ transaction[q].State = TxLose
        /\ transaction[p].UserID = transaction[q].UserID
        /\ transaction[p].AmountMinor <= seeded[transaction[p].UserID]
        /\ transaction[q].AmountMinor <= seeded[transaction[p].UserID]

\* C6: of the calls with one transactionId at most one returns nil, on
\* whatever accounts they are; at most one transaction record has that id,
\* it is the record of the call that returned nil, and it exists once one
\* of them has returned nil; only that call's change of balance persists.
C6_TransactionIDUnique ==
    /\ \A p, q \in Calls : p # q /\ Succeeded(p) /\ Succeeded(q) => ~SameTxID(p, q)
    /\ \A r1, r2 \in transactions : r1.transaction_id = r2.transaction_id => r1 = r2
    /\ \A p \in Calls :
          Succeeded(p) => [transaction_id |-> transaction[p].TransactionID,
                           user_id |-> transaction[p].UserID] \in transactions
    /\ \A p, q \in Calls :
          ( /\ p # q /\ SameTxID(p, q) /\ Succeeded(p) /\ pc[q] = "done"
            /\ \A r \in Calls \ {p, q} : ~Succeeded(r) )
          => /\ err[q] # ErrNil
             /\ users = [seeded EXCEPT ![transaction[p].UserID] =
                            IF transaction[p].State = TxWin
                            THEN @ + transaction[p].AmountMinor
                            ELSE @ - transaction[p].AmountMinor]

\* two calls with one transactionId on two accounts are in flight together:
\* the call that arrived second has committed its insert, and the first, which
\* holds its own row lock and an uncommitted balance, is refused as duplicate
C6_Witness ==
    \E p, q \in Calls :
        /\ p < q /\ Succeeded(q) /\ SameTxID(p, q)
        /\ transaction[p].UserID # transaction[q].UserID
        /\ pc[p] = "rollback" /\ err[p] = ErrDuplicateTransaction
        /\ written[p] # NoWrite /\ rowLock[transaction[p].UserID] = p

\* C7: a step by which a call ends up with an error, of whatever kind
\* (account not found, insufficient funds, duplicate, invalid state, storage
\* failure at any statement, failure of the commit), and every step of a call
\* other than its successful commit, leaves the committed balances and the
\* transaction records as they were; when the call has returned its error
\* nothing of its unit of work is left: no uncommitted balance, no
\* uncommitted record, no row lock.
C7_ErrorMeansRolledBack ==
    [][\A p \in Calls :
          /\ (Step(p) /\ ~(pc[p] = "commit" /\ err'[p] = ErrNil))
             => users' = users /\ transactions' = transactions
          /\ (Step(p) /\ pc'[p] = "done" /\ err'[p] # ErrNil)
             => /\ users' = users /\ transactions' = transactions
                /\ written'[p] = NoWrite /\ ~inserted'[p]
                /\ \A u \in SeededUsers : rowLock'[u] # p]_vars

\* a win that arrived after its transactionId was committed has written an
\* uncommitted balance on the same account, was refused as duplicate and has
\* returned: the balance is the one the first call left, the lock is free
C7_Witness ==
    \E p, q \in Calls :
        /\ Succeeded(p) /\ Returned(q, ErrDuplicateTransaction)
        /\ transaction[p].State = TxWin /\ transaction[q].State = TxWin
        /\ transaction[p].UserID = transaction[q].UserID
        /\ replay[q]
        /\ users[transaction[p].UserID] =
              seeded[transaction[p].UserID] + transaction[p].AmountMinor
        /\ rowLock[transaction[p].UserID] = NoLock

\* C8: at all times the transaction records are exactly the records
\* (transactionId, accountId) of the calls that returned nil, distinct calls
\* that returned nil have distinct records, and every balance is the
\* provisioned balance plus the wins minus the loses that returned nil on
\* the account; a record, once there, is never removed or changed.
C8_RecordsMatchMutations ==
    /\ [](/\ transactions = {[transaction_id |-> transaction[p].TransactionID,
                              user_id |-> transaction[p].UserID] :
                                 p \in {q \in Calls : Succeeded(q)}}
          /\ Cardinality(transactions) = Cardinality({q \in Calls : Succeeded(q)})
          /\ \A u \in SeededUsers :
                users[u] = seeded[u] + Sum(AmountOf, Applied(u, TxWin))
                                     - Sum(AmountOf, Applied(u, TxLose)))
    /\ [][transactions \subseteq transactions']_vars

\* a win and a lose on one account have both returned nil and left two records
C8_Witness ==
    \E p, q \in Calls :
        /\ Succeeded(p) /\ Succeeded(q)
        /\ transaction[p].State = TxWin /\ transaction[q].State = TxLose
        /\ transaction[p].UserID = transaction[q].UserID
        /\ transaction[p].AmountMinor # transaction[q].AmountMinor
        /\ Cardinality(transactions) = 2

\* C9: the commit of a win of amount a on an account whose committed balance
\* is b, the balance the call read under its lock, leaves b + a; the commit
\* of a lose of a <= b leaves b - a; every other balance is unchanged.
C9_CommitEffect ==
    [][\A p \in Calls :
          (pc[p] = "commit" /\ pc'[p] = "done" /\ err'[p] = ErrNil)
          => LET u == transaction[p].UserID
                 a == transaction[p].AmountMinor
                 b == users[u]
             IN  /\ b = balance[p]
                 /\ transaction[p].State = TxWin => users'[u] = b + a
                 /\ transaction[p].State = TxLose => a <= b /\ users'[u] = b - a
                 /\ \A v \in SeededUsers \ {u} : users'[v] = users[v]]_vars

\* a win has raised a balance, and a lose of all of it has left exactly 0
C9_Witness ==
    \E p, q \in Calls :
        /\ p < q /\ Succeeded(p) /\ Succeeded(q)
        /\ transaction[p].State = TxWin /\ transaction[q].State = TxLose
        /\ transaction[p].UserID = transaction[q].UserID
        /\ transaction[q].AmountMinor =
              seeded[transaction[p].UserID] + transaction[p].AmountMinor
        /\ users[transaction[p].UserID] = 0

\* C10: when two wins with distinct transactionIds on one account have both
\* returned nil, and no other call has returned nil on the account, the
\* balance is the provisioned balance plus both amounts.
C10_ConcurrentWins ==
    \A p, q \in Calls :
        ( /\ p # q /\ Succeeded(p) /\ Succeeded(q)
          /\ transaction[p].State = TxWin /\ transaction[q].State = TxWin
          /\ transaction[p].UserID = transaction[q].UserID
          /\ \A r \in Calls \ {p, q} :
                ~(Succeeded(r) /\ transaction[r].UserID = transaction[p].UserID) )
        => users[transaction[p].UserID] =
              seeded[transaction[p].UserID]
                 + transaction[p].AmountMinor + transaction[q].AmountMinor

\* the win that arrived second has committed while the first was in flight,
\* and the first is about to commit the sum of both on top of the balance
C10_Witness ==
    \E p, q \in Calls :
        /\ p < q /\ Succeeded(q) /\ pc[p] = "commit"
        /\ transaction[p].State = TxWin /\ transaction[q].State = TxWin
        /\ transaction[p].UserID = transaction[q].UserID
        /\ transaction[p].AmountMinor # transaction[q].AmountMinor
        /\ written[p] = seeded[transaction[p].UserID]
                           + transaction[p].AmountMinor + transaction[q].AmountMinor

\* ---- the amount grammar and the requests, as the properties below read them ----

RECURSIVE Decimal(_)
\* the number a string of digits denotes
Decimal(d) ==
    IF d = <<>> THEN 0 ELSE 10 * Decimal(SubSeq(d, 1, Len(d) - 1)) + DigitValue(d[Len(d)])

AllDigits(s) == s # <<>> /\ \A i \in 1 .. Len(s) : IsDigit(s[i])
\* the string without its one optional leading sign
Signless(t) == IF t # <<>> /\ t[1] \in {"+", "-"} THEN Tail(t) ELSE t
DotsOf(b) == {i \in 1 .. Len(b) : b[i] = "."}
FirstDot(b) == CHOOSE i \in DotsOf(b) : \A j \in DotsOf(b) : i <= j
IntegerPart(b) == IF DotsOf(b) = {} THEN b ELSE SubSeq(b, 1, FirstDot(b) - 1)
FractionPart(b) == IF DotsOf(b) = {} THEN <<>> ELSE SubSeq(b, FirstDot(b) + 1, Len(b))

\* an optional sign, an integer part, an optional '.' followed by 1 or 2 digits
Grammar(t) ==
    LET b == Signless(t)
    IN  /\ Cardinality(DotsOf(b)) <= 1
        /\ AllDigits(IntegerPart(b))
        /\ DotsOf(b) # {} => AllDigits(FractionPart(b)) /\ Len(FractionPart(b)) \in {1, 2}

\* i*100 + f of a string of the grammar, a single fractional digit d counting d*10
Magnitude(t) ==
    LET b == Signless(t)
        f == FractionPart(b)
    IN  Decimal(IntegerPart(b)) * 100 + (IF Len(f) = 1 THEN 10 * Decimal(f) ELSE Decimal(f))
SignedValue(t) == IF t[1] = "-" THEN -Magnitude(t) ELSE Magnitude(t)

\* the inputs the decoder is to reject: empty, only a sign, more than one '.',
\* more than two fractional digits, a character that is neither digit nor '.'
\* after the leading sign, a value of zero or below
MustReject(t) ==
    LET b == Signless(t)
    IN  \/ t = <<>>
        \/ b = <<>>
        \/ Cardinality(DotsOf(b)) > 1
        \/ Cardinality(DotsOf(b)) = 1 /\ Len(FractionPart(b)) > 2
        \/ \E i \in 1 .. Len(b) : ~IsDigit(b[i]) /\ b[i] # "."
        \/ Grammar(t) /\ SignedValue(t) <= 0

EarlierErrors == {"invalid userId in path", "invalid Source-Type header", "empty body",
                  "invalid JSON", "invalid state"}
AmountErrors == {"amount required", "invalid amount", "amount supports up to 2 decimals",
                 "invalid amount integer", "invalid amount fractional",
                 "amount must be > 0"}

\* the handler of a POST has ended and had come to parseAmountCents
ReachedAmount ==
    httpPc = "done" /\ request.method = "POST" /\ response.error \notin EarlierErrors
\* ... and parseAmountCents returned an error, reported as 400
AmountRejected == response.status = 400 /\ response.error \in AmountErrors
\* the amount of the request, surrounding white space aside
Amount == TrimSpace(request.amount)

\* a request that is malformed in one of its parts
Malformed(r) ==
    \/ ~(AllDigits(r.userId) /\ Decimal(r.userId) > 0)
    \/ ToLower(TrimSpace(r.sourceType)) \notin {game, server, payment}
    \/ r.body # "object"
    \/ ToLower(TrimSpace(r.state)) \notin {win, lose}
    \/ ~(Grammar(TrimSpace(r.amount)) /\ SignedValue(TrimSpace(r.amount)) > 0)
    \/ r.transactionId = ""

ExpectedStatus(kind) ==
    CASE kind = ErrNil -> 200
      [] kind = ErrDuplicateTransaction -> 409
      [] kind = ErrInsufficientFunds -> 409
      [] kind = ErrUserNotFound -> 404
      [] OTHER -> 500

\* the call is past LockAndGetBalance and its transaction is open
PastLock(p) == pc[p] \in {"apply", "insert", "commit"}

\* the statement call p executes next cannot complete before another open
\* transaction has ended
Waiting(p) ==
    LET t == transaction[p]
    IN  \/ pc[p] = "lock" /\ ~RowFree(p, t.UserID)
        \/ /\ pc[p] = "apply"
           /\ t.State = TxWin \/ (t.State = TxLose /\ ~(balance[p] < t.AmountMinor))
           /\ ~RowFree(p, t.UserID)
        \/ pc[p] = "insert" /\ KeyInFlight(p, t.TransactionID)

\* C11: for every integer m >= 0, m = 0 included, the two-decimal string that
\* GetBalanceHandler writes for the balance m is decoded by parseAmountCents
\* without error to m.
C11_RoundTrip ==
    httpPc = "done" /\ request.method = "GET" /\ response.status = 200
    => parseAmountCents(response.balance) = AmountOK(svcResult.balance)

\* C12: parseAmountCents returns an error, and neither a value nor a panic, for
\* every input that is empty, is only a sign, has more than one '.', has more
\* than two fractional digits, has a non-digit character after the one
\* optional leading sign, or denotes zero or a negative value.
C12_MalformedAmountRejected ==
    ReachedAmount /\ MustReject(Amount) => AmountRejected

\* C13: parseAmountCents accepts an optional leading sign, an integer part and
\* an optional '.' followed by exactly 1 or 2 digits, and nothing else; the
\* result for an accepted input is i*100 + f, where a single fractional digit
\* d counts as d*10.
C13_AcceptedAmounts ==
    /\ ReachedAmount /\ svcCall # NoCall
       => Grammar(Amount) /\ svcCall.AmountMinor = SignedValue(Amount)
    /\ ReachedAmount /\ Grammar(Amount) /\ SignedValue(Amount) > 0
                     /\ SignedValue(Amount) <= MaxInt64
       => response # NoResponse /\ ~AmountRejected

\* C14: an input whose i*100 + f does not fit into int64 is rejected, never
\* returned as the value wrapped around modulo 2^64.
C14_OverflowRejected ==
    ReachedAmount /\ Grammar(Amount) /\ Magnitude(Amount) > MaxInt64 => AmountRejected

\* C15: every Transaction ProcessTransactionHandler hands to the service has
\* AmountMinor > 0 (and State win or lose), so IncreaseBalance only adds and
\* DecreaseBalance only subtracts a positive amount.
C15_AmountPositive ==
    request.method = "POST" /\ svcCall # NoCall
    => /\ svcCall.AmountMinor > 0
       /\ svcCall.AmountMinor <= MaxInt64
       /\ svcCall.State \in {TxWin, TxLose}

C15_Witness ==
    /\ httpPc = "done"
    /\ request.amount = <<"1", ".", "5">>
    /\ svcCall.AmountMinor = 150
    /\ svcCall.State = TxLose
    /\ response.status = 200

\* C16: a malformed request (invalid userId, invalid Source-Type, invalid or
\* empty body, invalid state, invalid amount, empty transactionId) is answered
\* with 400 and the service, hence the storage, is never called for it.
C16_MalformedRequestRejected ==
    httpPc = "done" /\ request.method = "POST" /\ Malformed(request)
    => response.status = 400 /\ svcCall = NoCall

\* C17: ProcessTransaction for a UserID without users row stops at Exists: it
\* returns ErrUserNotFound (unless the storage failed) whatever its State and
\* TransactionID, never comes to LockAndGetBalance or a later statement, and
\* neither a users row nor a transactions row is made for it.
C17_AbsentAccount ==
    /\ \A p \in Calls :
          pc[p] # "idle" /\ transaction[p].UserID \notin SeededUsers
          => /\ pc[p] \in {"exists", "rollback", "done"}
             /\ pc[p] \in {"rollback", "done"} => err[p] \in {ErrUserNotFound, ErrStorage}
             /\ written[p] = NoWrite /\ ~inserted[p]
    /\ DOMAIN users = SeededUsers
    /\ \A r \in transactions : r.user_id \in SeededUsers

C17_Witness ==
    \E p \in Calls :
        /\ Returned(p, ErrUserNotFound)
        /\ transaction[p].UserID \notin SeededUsers
        /\ transaction[p].State = TxWin
        /\ replay[p]
        /\ \A r \in transactions : r.user_id # transaction[p].UserID

C19_MutualExclusion ==
    \A p \in Calls :
        PastLock(p)
        => /\ balance[p] = users[transaction[p].UserID]
           /\ \A q \in Calls \ {p} :
                 PastLock(q) => transaction[q].UserID # transaction[p].UserID

C19_Witness ==
    \E p, q \in Calls :
        /\ p < q
        /\ Succeeded(p) /\ transaction[p].State = TxWin
        /\ transaction[q].UserID = transaction[p].UserID
        /\ PastLock(q)
        /\ balance[q] = seeded[transaction[p].UserID] + transaction[p].AmountMinor

\* C20: LockAndGetBalance is the only statement of ProcessTransaction at
\* which a call waits for another open transaction; Exists, IncreaseBalance,
\* DecreaseBalance and Insert never wait.
C20_OnlyLockWaits ==
    \A p \in Calls : Waiting(p) => pc[p] = "lock"

\* C20, amended: a call waits for another open transaction at
\* LockAndGetBalance, and at Insert while another open transaction holds an
\* uncommitted row with the same transaction_id (on any account); Exists,
\* IncreaseBalance and DecreaseBalance never wait.
C20_LockAndInsertWait ==
    \A p \in Calls : Waiting(p) => pc[p] \in {"lock", "insert"}

C20_Witness ==
    \E p, q \in Calls :
        /\ pc[p] = "insert" /\ Waiting(p)
        /\ inserted[q] /\ SameTxID(p, q)
        /\ transaction[p].UserID # transaction[q].UserID

\* ---- adjustments of one account, in the order of their row locks ----

\* the switch of ProcessTransaction on an account whose locked balance is b,
\* with no other call at work: the balance it leaves and the error it returns
Alone(b, t) ==
    IF t.State = TxWin
    THEN [balance |-> b + t.AmountMinor, err |-> ErrNil]
    ELSE IF t.State # TxLose
    THEN [balance |-> b, err |-> ErrInvalidState]
    ELSE IF b < t.AmountMinor
    THEN [balance |-> b, err |-> ErrInsufficientFunds]
    ELSE [balance |-> b - t.AmountMinor, err |-> ErrNil]

\* the calls of order run one after another from balance b: the balance they
\* leave, and whether each call that returned nil or ErrInsufficientFunds
\* returned what it returns in this run (a call that failed otherwise leaves
\* the balance as it was)
RECURSIVE InLockOrder(_, _)
InLockOrder(order, b) ==
    IF order = <<>>
    THEN [balance |-> b, agrees |-> TRUE]
    ELSE LET p == Head(order)
             alone == Alone(b, transaction[p])
             rest == InLockOrder(Tail(order), IF err[p] = ErrNil THEN alone.balance ELSE b)
         IN  [balance |-> rest.balance,
              agrees |-> /\ rest.agrees
                         /\ err[p] \in {ErrNil, ErrInsufficientFunds} => alone.err = err[p]]

\* the calls that took the row lock of u and have returned, in lock order
Returns(u) == SelectSeq(lockOrder[u], LAMBDA p : pc[p] = "done")

\* C21: the adjustments of one account take effect in the order in which
\* their transactions were granted the row lock: the outcome of each call
\* that has returned (nil or ErrInsufficientFunds) and the committed balance
\* are those of running these calls one after another in that order
C21_LockOrder ==
    \A u \in SeededUsers :
        LET run == InLockOrder(Returns(u), seeded[u]) IN
        /\ run.agrees
        /\ run.balance = users[u]

\* the call that arrived second was granted the lock first and took the whole
\* balance; the call that arrived first then found insufficient funds
C21_Witness ==
    \E u \in SeededUsers :
        /\ lockOrder[u] = <<2, 1>>
        /\ pc[1] = "done" /\ pc[2] = "done"
        /\ transaction[1].State = TxLose /\ transaction[2].State = TxLose
        /\ err[2] = ErrNil
        /\ err[1] = ErrInsufficientFunds
        /\ seeded[u] >= transaction[1].AmountMinor

\* ---- cancellation of the request context ----

\* Cancel, were the transaction not bound to the context: the call goes on
CancelIgnored(p) ==
    /\ pc[p] \in {"exists", "lock", "apply", "insert", "commit"}
    /\ ctx[p] = "live"
    /\ ctx' = [ctx EXCEPT ![p] = "canceled"]
    /\ UNCHANGED <<users, transactions, rowLock, pc, transaction, balance, written,
                   inserted, err, replay, seeded, lockOrder, httpVars, queueVars>>

\* the context WithTx passed to db.BeginTx is canceled while the transaction
\* of p is open: database/sql rolls the transaction back, so that the next
\* statement of fn fails and WithTx goes on to tx.Rollback(); a tx.Commit()
\* that was about to run returns the error of the context and commits nothing
Cancel(p) ==
    /\ pc[p] \in {"exists", "lock", "apply", "insert", "commit"}
    /\ ctx[p] = "live"
    /\ ctx' = [ctx EXCEPT ![p] = "canceled"]
    /\ err' = [err EXCEPT ![p] = ErrStorage]
    /\ rowLock' = Released(p)
    /\ written' = [written EXCEPT ![p] = NoWrite]
    /\ inserted' = [inserted EXCEPT ![p] = FALSE]
    /\ IF pc[p] = "commit"
       THEN /\ pc' = [pc EXCEPT ![p] = "done"]
            /\ balance' = [balance EXCEPT ![p] = 0]
       ELSE /\ pc' = [pc EXCEPT ![p] = "rollback"]
            /\ UNCHANGED balance
    /\ UNCHANGED <<users, transactions, transaction, replay, seeded, lockOrder, httpVars,
                   queueVars>>

NextCancel ==
    \/ Next
    \/ \E p \in Calls : Cancel(p)

\* the service with callers whose contexts can be canceled
SpecCancel == Init /\ [][NextCancel]_<<vars, httpVars, queueVars>>

\* C22: once the context of a call is canceled before its commit, the call
\* commits nothing at the cancellation or at any later step (no balance and
\* no transaction record changes by it), nothing it wrote stays pending, it
\* holds no row lock, and the error it carries is not nil
C22_CanceledRollsBack ==
    [][\A p \in Calls :
          ctx'[p] = "canceled" =>
              /\ Step(p) => users' = users /\ transactions' = transactions
              /\ written'[p] = NoWrite
              /\ ~inserted'[p]
              /\ \A u \in SeededUsers : rowLock'[u] # p
              /\ err'[p] # ErrNil]_vars

\* a win was canceled after it had taken the row lock, and has returned: the
\* balance is the seeded one and the transaction id has no record
C22_Witness ==
    \E p \in Calls :
        /\ ctx[p] = "canceled"
        /\ pc[p] = "done"
        /\ err[p] # ErrNil
        /\ transaction[p].State = TxWin
        /\ transaction[p].UserID \in SeededUsers
        /\ lockOrder[transaction[p].UserID] = <<p>>
        /\ users = seeded
        /\ ~KeyCommitted(transaction[p].TransactionID)

\* ---- retries ----

\* the attempts of the request of call p: the calls made with the same argument
Attempts(p) == {r \in Calls : pc[r] # "idle" /\ transaction[r] = transaction[p]}

\* the change of balance transaction t asks for
Signed(t) == IF t.State = TxWin THEN t.AmountMinor ELSE 0 - t.AmountMinor

\* the changes of the balance of u asked for by the calls of S that returned nil
RECURSIVE Changes(_, _)
Changes(S, u) ==
    IF S = {} THEN 0
    ELSE LET r == CHOOSE x \in S : TRUE IN
         (IF Succeeded(r) /\ transaction[r].UserID = u THEN Signed(transaction[r]) ELSE 0)
            + Changes(S \ {r}, u)

\* C23: of the attempts of one request, whatever made the others fail (a
\* storage error at any statement, a canceled context, a failed commit) and
\* whether they ran one after another or together, at most one returns nil,
\* and the balance of the account differs from what the other calls made of
\* it by the request's amount applied once if an attempt returned nil, and
\* not at all if none did
C23_RetryAppliesOnce ==
    \A p \in Calls :
        (pc[p] # "idle" /\ Valid(p)) =>
            LET u == transaction[p].UserID
                applied == {r \in Attempts(p) : Succeeded(r)}
                change == users[u] - seeded[u] - Changes(Calls \ Attempts(p), u)
            IN  /\ Cardinality(applied) <= 1
                /\ change = IF applied = {} THEN 0 ELSE Signed(transaction[p])

\* the first attempt was canceled after it had taken the row lock, the retry
\* of the same request has returned nil, and the amount is applied once
C23_Witness ==
    \E p, r \in Calls :
        /\ p < r /\ r \in Attempts(p) /\ Valid(p)
        /\ ctx[p] = "canceled" /\ pc[p] = "done"
        /\ lockOrder[transaction[p].UserID] = <<p, r>>
        /\ Succeeded(r)
        /\ users[transaction[p].UserID] =
              seeded[transaction[p].UserID] + Signed(transaction[p])

\* C24: a call carries ErrDuplicateTransaction only while a committed
\* transaction record has its transactionId: from the failed INSERT to the
\* return the record is there, whatever became of the inserts that other
\* transactions had pending
C24_DuplicateMeansCommitted ==
    \A p \in Calls :
        err[p] = ErrDuplicateTransaction => KeyCommitted(transaction[p].TransactionID)

\* the transactionId was not committed when the call arrived: its INSERT met
\* the key only after the other call had committed it, and the call has
\* returned ErrDuplicateTransaction
C24_Witness ==
    \E p \in Calls :
        /\ Returned(p, ErrDuplicateTransaction)
        /\ ~replay[p]
        /\ \E r \in Calls \ {p} : Succeeded(r) /\ SameTxID(p, r)

\* ---- the unlocked read ----

\* the result of GetBalance with the row of users the statement reads; row
\* is <<>> when the SELECT returns no row (sql.ErrNoRows)
GetBalanceResults(row) ==
    (IF row = <<>>
     THEN {[balance |-> 0, err |-> Errorf("get balance", "%w", New(ErrUserNotFound))]}
     ELSE {[balance |-> row[1], err |-> nil]})
    \cup {[balance |-> 0,
           err |-> Errorf("get balance", "%w", Errorf("get balance", "%w", New(ErrStorage)))]}

\* GetBalance, were the SELECT to see the row version an open transaction wrote
GetBalanceDirty(u) ==
    /\ svcCall' = [NoCall EXCEPT !.UserID = u]
    /\ svcResult' \in GetBalanceResults(
           IF u \notin SeededUsers THEN <<>>
           ELSE IF rowLock[u] # NoLock /\ written[rowLock[u]] # NoWrite
           THEN <<written[rowLock[u]]>>
           ELSE <<users[u]>>)
    /\ UNCHANGED <<request, httpPc, response, vars, queueVars>>

\* balanceService.GetBalance: SELECT balance FROM users WHERE id = $1 on the
\* pool, outside any transaction: the statement reads the committed row,
\* takes no row lock and waits for none
GetBalance(u) ==
    /\ svcCall' = [NoCall EXCEPT !.UserID = u]
    /\ svcResult' \in GetBalanceResults(IF u \in SeededUsers THEN <<users[u]>> ELSE <<>>)
    /\ UNCHANGED <<request, httpPc, response, vars, queueVars>>

NextRead ==
    \/ Next
    \/ \E u \in UserIDs : GetBalance(u)

\* the accounts as the migrator seeds them, with balance 0
InitRead ==
    /\ Init
    /\ users = [u \in SeededUsers |-> 0]

\* the service with a reader of balances beside the callers of ProcessTransaction
SpecRead == InitRead /\ [][NextRead]_<<vars, httpVars, queueVars>>

\* C25: GetBalance can run in every state, whoever holds the row lock of the
\* account; it leaves the ledger as it is (no balance, record, row lock or
\* pending write changes); for an account without row it returns
\* ErrUserNotFound, for an account with a row it returns the committed
\* balance, never a balance that an open transaction has written, and never
\* ErrUserNotFound (a failure of the database apart)
C25_UnlockedRead ==
    /\ [](\A u \in UserIDs : ENABLED GetBalance(u))
    /\ [][<<svcCall, svcResult>>' # <<svcCall, svcResult>> =>
             LET u == svcCall'.UserID
                 result == svcResult'
             IN  /\ vars' = vars
                 /\ result.err = nil => u \in SeededUsers /\ result.balance = users[u]
                 /\ u \notin SeededUsers =>
                        \/ Is(result.err, ErrUserNotFound)
                        \/ result.err.kind = ErrStorage
                 /\ u \in SeededUsers => ~Is(result.err, ErrUserNotFound)
                 /\ result.err # nil => result.balance = 0]_<<vars, httpVars>>

\* the reader holds the committed balance of an account whose row lock an
\* open transaction holds, with a different balance written and not committed
C25_Witness ==
    \E u \in SeededUsers :
        /\ svcCall.UserID = u
        /\ svcResult.err = nil
        /\ svcResult.balance = users[u]
        /\ rowLock[u] # NoLock
        /\ written[rowLock[u]] \notin {NoWrite, users[u]}
        /\ users[u] # seeded[u]

\* ---- the Source-Type header ----

\* the outcomes of a request as far as the ledger goes: what the service
\* reads of its argument, what it returns, and the response
Ledger(outcomes) ==
    {[call |-> Reads(o.call), result |-> o.result, response |-> o.response] :
        o \in outcomes}

Event(kind, task, call, how) == [kind |-> kind, task |-> task, call |-> call, how |-> how]

Found == IF queue.closed THEN "closed" ELSE "open"

\* the calls of Add made so far; the task of the next call
Adds == Cardinality({k \in DOMAIN events : events[k].kind = "add"})
NextTask == Adds + 1

\* the errors Shutdown collects in errs
TaskError(t) == [kind |-> "task", task |-> t]
PanicError(t) == [kind |-> "panic in shutdown task", task |-> t]
CanceledError == [kind |-> "shutdown canceled", task |-> 0]
NoError == [kind |-> "nil", task |-> 0]

\* errors.Join: nil (the empty sequence) when no error is left once the nil
\* ones are dropped, else an error that holds the others in their order
Join(errs) == SelectSeq(errs, LAMBDA e : e # NoError)

\* Add, were it without the check of q.closed
AddWhenClosed(t) ==
    /\ Adds < MaxAdds
    /\ events' = Append(events, Event("add", t, 0, Found))
    /\ IF t = nilTask
       THEN UNCHANGED queue
       ELSE queue' = [queue EXCEPT !.tasks = Append(@, t)]
    /\ UNCHANGED <<shutdown, vars, httpVars>>

\* Add(t), under q.mu
Add(t) ==
    /\ Adds < MaxAdds
    /\ events' = Append(events, Event("add", t, 0, Found))
    /\ IF t = nilTask \/ queue.closed
       THEN UNCHANGED queue
       ELSE queue' = [queue EXCEPT !.tasks = Append(@, t)]
    /\ UNCHANGED <<shutdown, vars, httpVars>>

\* ShutdownTake, were q.tasks left as it is
ShutdownTakeKeeps(c) ==
    /\ shutdown[c].pc = "idle"
    /\ c > 1 => shutdown[c - 1].pc # "idle"
    /\ events' = Append(events, Event("shutdown", 0, c, Found))
    /\ IF queue.closed /\ Len(queue.tasks) = 0
       THEN /\ shutdown' = [shutdown EXCEPT ![c].pc = "done", ![c].ret = <<>>]
            /\ UNCHANGED queue
       ELSE /\ queue' = [queue EXCEPT !.closed = TRUE]
            /\ shutdown' = [shutdown EXCEPT ![c].pc = "loop", ![c].tasks = queue.tasks,
                                            ![c].i = Len(queue.tasks)]
    /\ UNCHANGED <<vars, httpVars>>

\* Shutdown, under q.mu: return nil if the queue is closed and empty, else
\* close it and take its tasks; calls are numbered in the order they are made
ShutdownTake(c) ==
    /\ shutdown[c].pc = "idle"
    /\ c > 1 => shutdown[c - 1].pc # "idle"
    /\ events' = Append(events, Event("shutdown", 0, c, Found))
    /\ IF queue.closed /\ Len(queue.tasks) = 0
       THEN /\ shutdown' = [shutdown EXCEPT ![c].pc = "done", ![c].ret = <<>>]
            /\ UNCHANGED queue
       ELSE /\ queue' = [tasks |-> <<>>, closed |-> TRUE]
            /\ shutdown' = [shutdown EXCEPT ![c].pc = "loop", ![c].tasks = queue.tasks,
                                            ![c].i = Len(queue.tasks)]
    /\ UNCHANGED <<vars, httpVars>>

\* tasks[i], counted from the other end
PickFirst(f) == f.tasks[Len(f.tasks) + 1 - f.i]

\* tasks[i] of the loop for i := len(tasks) - 1; i >= 0; i--
Pick(f) == f.tasks[f.i]

\* ShutdownSelect, were the loop without the select on ctx.Done()
ShutdownSelectNoCancel(c) ==
    LET f == shutdown[c] IN
    /\ f.pc = "loop"
    /\ IF f.i < 1
       THEN /\ shutdown' = [shutdown EXCEPT ![c].pc = "done", ![c].ret = Join(f.errs)]
            /\ UNCHANGED events
       ELSE /\ shutdown' = [shutdown EXCEPT ![c].pc = "task"]
            /\ events' = Append(events, Event("start", Pick(f), c, ""))
    /\ UNCHANGED <<queue, vars, httpVars>>

\* the head of the loop: return the joined errors when no task is left or,
\* with an error for it, when ctx is done; else call the next task
ShutdownSelect(c) ==
    LET f == shutdown[c] IN
    /\ f.pc = "loop"
    /\ IF f.i < 1
       THEN /\ shutdown' = [shutdown EXCEPT ![c].pc = "done", ![c].ret = Join(f.errs)]
            /\ UNCHANGED events
       ELSE IF f.done
       THEN /\ shutdown' = [shutdown EXCEPT ![c].pc = "done",
                                            ![c].errs = Append(f.errs, CanceledError),
                                            ![c].ret = Join(Append(f.errs, CanceledError))]
            /\ UNCHANGED events
       ELSE /\ shutdown' = [shutdown EXCEPT ![c].pc = "task"]
            /\ events' = Append(events, Event("start", Pick(f), c, ""))
    /\ UNCHANGED <<queue, vars, httpVars>>

\* what the call of a task adds to errs
Collected(errs, t, outcome) ==
    CASE outcome = "nil" -> errs
      [] outcome = "error" -> Append(errs, TaskError(t))
      [] outcome = "panic" -> Append(errs, PanicError(t))

\* ShutdownTask, were Shutdown to return at the first task that fails
ShutdownTaskFailFast(c, outcome) ==
    LET f == shutdown[c] IN
    /\ f.pc = "task"
    /\ events' = Append(events, Event("end", Pick(f), c, outcome))
    /\ IF outcome = "nil"
       THEN shutdown' = [shutdown EXCEPT ![c].pc = "loop", ![c].i = f.i - 1]
       ELSE shutdown' = [shutdown EXCEPT ![c].pc = "done", ![c].i = f.i - 1,
                                         ![c].errs = Collected(f.errs, Pick(f), outcome),
                                         ![c].ret = Join(Collected(f.errs, Pick(f), outcome))]
    /\ UNCHANGED <<queue, vars, httpVars>>

\* the task returns nil, returns an error, or panics and is recovered; the
\* loop goes on to the task before it
ShutdownTask(c, outcome) ==
    LET f == shutdown[c] IN
    /\ f.pc = "task"
    /\ events' = Append(events, Event("end", Pick(f), c, outcome))
    /\ shutdown' = [shutdown EXCEPT ![c].pc = "loop", ![c].i = f.i - 1,
                                    ![c].errs = Collected(f.errs, Pick(f), outcome)]
    /\ UNCHANGED <<queue, vars, httpVars>>

\* the context passed to Shutdown is canceled, or its deadline passes
ShutdownCancel(c) ==
    /\ shutdown[c].pc # "done"
    /\ ~shutdown[c].done
    /\ shutdown' = [shutdown EXCEPT ![c].done = TRUE]
    /\ UNCHANGED <<queue, events, vars, httpVars>>

Shutdown(c) ==
    \/ ShutdownTake(c)
    \/ ShutdownSelect(c)
    \/ \E outcome \in TaskOutcomes : ShutdownTask(c, outcome)
    \/ ShutdownCancel(c)

NextQueue ==
    \/ \E t \in {nilTask, NextTask} : Add(t) /\ UNCHANGED main
    \/ \E c \in ShutdownCalls : Shutdown(c) /\ UNCHANGED main

\* the process with its queue, the ledger at rest
InitQueue ==
    /\ Init
    /\ users = [u \in SeededUsers |-> 0]

SpecQueue == InitQueue /\ [][NextQueue]_<<vars, httpVars, queueVars>>

\* ---- what the queue has done, for the properties below ----

\* the entries of events of one kind, as positions
At(kind) == {k \in DOMAIN events : events[k].kind = kind}

\* task t has ended before position k of events
EndedBefore(t, k) == \E m \in At("end") : m < k /\ events[m].task = t

\* C27: a task is started only when every task that was added after it and
\* taken by the same call of Shutdown has returned or panicked: the tasks
\* run one at a time, the last added first
C27_LIFO ==
    \A k \in At("start") :
        LET tasks == shutdown[events[k].call].tasks IN
        \A i, j \in DOMAIN tasks :
            (tasks[i] = events[k].task /\ i < j) => EndedBefore(tasks[j], k)

\* three tasks were added and have run: 3, then 2, then 1
C27_Witness ==
    /\ Cardinality(At("start")) = 3
    /\ Cardinality(At("end")) = 3
    /\ \E c \in ShutdownCalls :
          /\ shutdown[c].tasks = <<1, 2, 3>>
          /\ shutdown[c].pc = "done"
    /\ \E k, l, m \in At("start") :
          /\ k < l /\ l < m
          /\ events[k].task = 3 /\ events[l].task = 2 /\ events[m].task = 1

\* task t has been started
Started(t) == \E k \in At("start") : events[k].task = t

\* C28: no task is started twice; a call of Shutdown made after another call
\* of Shutdown, whether that one has run all its tasks, was canceled, or is
\* still running them, takes no task, starts none and returns nil; the tasks
\* a canceled call had not started when it returned are never started
C28_Idempotent ==
    /\ \A k, l \in At("start") : events[k].task = events[l].task => k = l
    /\ \A k, l \in At("shutdown") :
          k < l => LET c == events[l].call IN
                   /\ shutdown[c].pc = "done"
                   /\ shutdown[c].tasks = <<>>
                   /\ shutdown[c].ret = <<>>
                   /\ \A m \in At("start") : events[m].call # c
    /\ \A c \in ShutdownCalls :
          shutdown[c].pc = "done" =>
              \A j \in 1 .. shutdown[c].i : ~Started(shutdown[c].tasks[j])

\* the first call ran one task of three and was canceled; the second call has
\* returned nil, and the two tasks that were skipped have not run
C28_Witness ==
    /\ shutdown[1].pc = "done"
    /\ Len(shutdown[1].tasks) = 3
    /\ shutdown[1].i = 2
    /\ CanceledError \in {shutdown[1].ret[k] : k \in DOMAIN shutdown[1].ret}
    /\ shutdown[2].pc = "done"
    /\ shutdown[2].ret = <<>>
    /\ Cardinality(At("start")) = 1

\* the tasks of a sequence
Range(tasks) == {tasks[j] : j \in DOMAIN tasks}

\* C29: a task passed to Add once a call of Shutdown has closed the queue,
\* also while that call is still running tasks, is not stored (it is neither
\* in the queue nor among the tasks a call of Shutdown took) and is never
\* started; the same holds of Add(nil); a closed queue holds no task
C29_AddAfterShutdown ==
    /\ \A k \in At("add") :
          (events[k].how = "closed" \/ events[k].task = nilTask) =>
              /\ events[k].task \notin Range(queue.tasks)
              /\ \A c \in ShutdownCalls : events[k].task \notin Range(shutdown[c].tasks)
              /\ ~Started(events[k].task)
    /\ queue.closed => queue.tasks = <<>>

\* a task was added while a call of Shutdown was running a task; the call went
\* on to the end of its tasks and has returned, and the added task has not run
C29_Witness ==
    \E k \in At("add") :
        /\ events[k].how = "closed"
        /\ events[k].task # nilTask
        /\ k > 1 /\ events[k - 1].kind = "start"
        /\ k < Len(events) /\ events[k + 1].kind = "end"
        /\ shutdown[events[k + 1].call].pc = "done"
        /\ shutdown[events[k + 1].call].i = 0
        /\ ~Started(events[k].task)

\* the tasks call c has run to their end, in the order in which they ended
Ended(c) == SelectSeq(events, LAMBDA e : e.kind = "end" /\ e.call = c)

\* the errors of the tasks of c that returned one or panicked, in that order
Failures(c) ==
    LET failed == SelectSeq(Ended(c), LAMBDA e : e.how # "nil") IN
    [k \in DOMAIN failed |->
        IF failed[k].how = "panic" THEN PanicError(failed[k].task)
        ELSE TaskError(failed[k].task)]

\* C30: when a call of Shutdown returns without having found its context
\* done, every task it took has run, the last added first, whichever of them
\* returned an error or panicked, and it returns the errors of the tasks that
\* returned one and one error for each task that panicked, joined in the
\* order in which the tasks ran: nil exactly when no task failed
C30_DrainContinues ==
    \A c \in ShutdownCalls :
        (shutdown[c].pc = "done" /\ CanceledError \notin Range(shutdown[c].errs)) =>
            LET tasks == shutdown[c].tasks
                ended == Ended(c)
            IN  /\ Len(ended) = Len(tasks)
                /\ \A k \in DOMAIN ended : ended[k].task = tasks[Len(tasks) + 1 - k]
                /\ shutdown[c].ret = Failures(c)
                /\ shutdown[c].ret = <<>> <=> \A k \in DOMAIN ended : ended[k].how = "nil"

\* of three tasks the last added panicked, the second returned an error and
\* the first returned nil; Shutdown has returned the two errors
C30_Witness ==
    \E c \in ShutdownCalls :
        /\ shutdown[c].pc = "done"
        /\ shutdown[c].tasks = <<1, 2, 3>>
        /\ shutdown[c].ret = <<PanicError(3), TaskError(2)>>
        /\ Len(Ended(c)) = 3
        /\ Ended(c)[3].how = "nil"

\* C31: a call of Shutdown starts a task only if it finds its context not
\* done at the head of the loop; a call that found it done with tasks left
\* has returned, the tasks it had not started are never started, and what it
\* returns is the errors of the tasks it ran, in the order they ran, followed
\* by the error of the context, and no other error
C31_CancelStopsDrain ==
    /\ [](\A c \in ShutdownCalls :
            CanceledError \in Range(shutdown[c].errs) =>
                LET f == shutdown[c] IN
                /\ f.pc = "done"
                /\ f.i >= 1
                /\ Len(Ended(c)) = Len(f.tasks) - f.i
                /\ \A j \in 1 .. f.i : ~Started(f.tasks[j])
                /\ f.ret = Append(Failures(c), CanceledError))
    /\ [][\A c \in ShutdownCalls :
            ( /\ shutdown[c].pc = "loop" /\ shutdown[c].done /\ shutdown[c].i >= 1
              /\ shutdown'[c] # shutdown[c] ) =>
                /\ shutdown'[c].pc = "done"
                /\ CanceledError \in Range(shutdown'[c].errs)
                /\ Ended(c)' = Ended(c)
                /\ \A k \in At("start")' : k \in At("start")]_<<queueVars>>

\* of three tasks the last added returned an error; the context was done
\* before the second was started, and Shutdown has returned both errors
C31_Witness ==
    \E c \in ShutdownCalls :
        /\ shutdown[c].pc = "done"
        /\ shutdown[c].tasks = <<1, 2, 3>>
        /\ shutdown[c].i = 2
        /\ shutdown[c].ret = <<TaskError(3), CanceledError>>
        /\ ~Started(2) /\ ~Started(1)

\* ---- the steps of one call ----

\* the steps of ProcessTransaction in the order of the success path, and the
\* way out of each on a failure
Path ==
    {<<"idle", "exists">>, <<"exists", "lock">>, <<"lock", "apply">>,
     <<"apply", "insert">>, <<"insert", "commit">>, <<"commit", "done">>}
    \cup {<<"idle", "done">>, <<"rollback", "done">>}
    \cup {<<at, "rollback">> : at \in {"exists", "lock", "apply", "insert"}}

\* the steps of every call follow Path; a record is inserted only after the
\* balance was written, and a written balance is under the row lock of the
\* call until its transaction ends; a step at which fn fails goes to rollback
InOrder ==
    \A p \in Calls :
        /\ Step(p) => <<pc[p], pc'[p]>> \in Path
        /\ (inserted'[p] /\ transaction'[p].UserID \in SeededUsers) => written'[p] # NoWrite
        /\ written'[p] # NoWrite => rowLock'[transaction'[p].UserID] = p
        /\ (Step(p) /\ err[p] = ErrNil /\ err'[p] # ErrNil /\ pc[p] \notin {"idle", "commit"})
              => pc'[p] = "rollback"

\* a call whose State is neither TxWin nor TxLose is never granted a row lock
InvalidKindNeverLocks ==
    \A p \in Calls :
        transaction'[p].State \notin {TxWin, TxLose} =>
            \A u \in SeededUsers : rowLock'[u] # p

StepsInOrder == [][InOrder]_vars

\* ---- termination ----

\* a step of call p once it has entered ProcessTransaction
Proceed(p) ==
    \/ Exists(p)
    \/ LockAndGetBalance(p)
    \/ IncreaseBalance(p)
    \/ DecreaseBalance(p)
    \/ InvalidState(p)
    \/ Insert(p)
    \/ Commit(p)
    \/ Rollback(p)

\* the service on a database that lets every statement that can complete do
\* so: a call that is not waiting goes on, a waiter is served once what it
\* waits for is free
SpecFair == Spec /\ \A p \in Calls : WF_<<vars, httpVars, queueVars>>(Proceed(p))

PreCheckPassed(p) ==
    /\ pc[p] = "apply"
    /\ transaction[p].State = TxLose
    /\ ~(balance[p] < transaction[p].AmountMinor)

\* C34: a lose whose locked balance has passed the pre-check is not refused
\* by DecreaseBalance: its step does not end with ErrInsufficientFunds, and
\* if the statement succeeds it writes the locked balance less the amount
C34_PreCheckAgrees ==
    [][\A p \in Calls :
          (PreCheckPassed(p) /\ Step(p)) =>
              /\ err'[p] # ErrInsufficientFunds
              /\ pc'[p] = "insert" =>
                     written'[p] = balance[p] - transaction[p].AmountMinor]_vars

\* a lose of the whole balance has passed the pre-check and the UPDATE, while
\* a lose on the same account waits for the row lock
C34_Witness ==
    \E p, r \in Calls :
        /\ pc[p] = "insert"
        /\ transaction[p].State = TxLose
        /\ balance[p] = transaction[p].AmountMinor
        /\ written[p] = 0
        /\ pc[r] = "lock"
        /\ transaction[r].State = TxLose
        /\ transaction[r].UserID = transaction[p].UserID

\* ---- units of work on the repositories ----

\* db.BeginTx for a unit of work that runs one statement of a repository and
\* commits if it returns nil: DecreaseBalance or IncreaseBalance (at "unit",
\* by the State of t) or Insert (at "insert"), with no Exists and no
\* LockAndGetBalance before it
BeginUnit(p, t, at) ==
    /\ pc[p] = "idle"
    /\ p > 1 => pc[p - 1] # "idle"
    /\ t.State \in {TxWin, TxLose}
    /\ transaction' = [transaction EXCEPT ![p] = t]
    /\ replay' = [replay EXCEPT ![p] = KeyCommitted(t.TransactionID)]
    /\ pc' = [pc EXCEPT ![p] = at]
    /\ UNCHANGED <<users, transactions, rowLock, balance, written, inserted, err, seeded>>
    /\ UNCHANGED <<lockOrder, ctx, httpVars, queueVars>>

\* UnitDecrease, with the UPDATE that has no guard
UnitDecreaseUnguarded(p) ==
    /\ pc[p] = "unit"
    /\ transaction[p].State = TxLose
    /\ UsersDecreaseBalanceUnguarded(p, "commit")
    /\ UNCHANGED <<users, transactions, transaction, balance, inserted, replay, seeded>>
    /\ UNCHANGED <<lockOrder, ctx, httpVars, queueVars>>

\* repo.DecreaseBalance(tx, userID, amount) as the only statement of the unit
UnitDecrease(p) ==
    /\ pc[p] = "unit"
    /\ transaction[p].State = TxLose
    /\ UsersDecreaseBalance(p, "commit")
    /\ UNCHANGED <<users, transactions, transaction, balance, inserted, replay, seeded>>
    /\ UNCHANGED <<lockOrder, ctx, httpVars, queueVars>>

\* repo.IncreaseBalance(tx, userID, amount) as the only statement of the unit
UnitIncrease(p) ==
    /\ pc[p] = "unit"
    /\ transaction[p].State = TxWin
    /\ UsersIncreaseBalance(p, "commit")
    /\ UNCHANGED <<users, transactions, transaction, balance, inserted, replay, seeded>>
    /\ UNCHANGED <<lockOrder, ctx, httpVars, queueVars>>

Unit(p) ==
    \/ \E t \in Transaction, at \in {"unit", "insert"} : BeginUnit(p, t, at)
    \/ UnitDecrease(p)
    \/ UnitIncrease(p)
    \/ Insert(p)
    \/ Commit(p)
    \/ Rollback(p)

NextRepo == \E p \in Calls : Unit(p)

\* the repositories under concurrent units of work
SpecRepo == Init /\ [][NextRepo]_<<vars, httpVars, queueVars>>

\* C35: with units of work that call DecreaseBalance without
\* LockAndGetBalance, in any interleaving, no committed and no pending
\* balance is negative; a DecreaseBalance that subtracts found the committed
\* balance of that moment at least the amount and writes that balance less
\* the amount, and one that returns ErrInsufficientFunds found it below the
\* amount (or no row) and writes nothing
C35_GuardAlone ==
    /\ [](/\ \A u \in SeededUsers : users[u] >= 0
          /\ \A p \in Calls : written[p] # NoWrite => written[p] >= 0)
    /\ [][\A p \in Calls :
            (pc[p] = "unit" /\ transaction[p].State = TxLose /\ Step(p)) =>
                LET u == transaction[p].UserID
                    amount == transaction[p].AmountMinor
                IN  /\ pc'[p] = "commit" =>
                        /\ u \in SeededUsers
                        /\ users[u] >= amount
                        /\ written'[p] = users[u] - amount
                    /\ err'[p] = ErrInsufficientFunds =>
                        /\ u \in SeededUsers => users[u] < amount
                        /\ written'[p] = NoWrite]_vars

\* two units decrease one account by its whole balance, neither has called
\* LockAndGetBalance: the one that began second has committed, and the first,
\* whose UPDATE ran after that commit, got ErrInsufficientFunds
C35_Witness ==
    \E u \in SeededUsers :
        /\ lockOrder[u] = <<>>
        /\ seeded[u] > 0
        /\ transaction[1].UserID = u /\ transaction[2].UserID = u
        /\ transaction[1].AmountMinor = seeded[u]
        /\ transaction[2].AmountMinor = seeded[u]
        /\ Succeeded(2)
        /\ Returned(1, ErrInsufficientFunds)
        /\ users[u] = 0

\* ---- which error, when several apply ----

\* C36: the error of a call is that of the first step that fails: a call on
\* an account without row fails at the existence check, with ErrUserNotFound
\* (or a storage error), whatever its kind, amount and transactionId; a lose
\* above the locked balance fails with ErrInsufficientFunds, also when its
\* transactionId is committed; ErrDuplicateTransaction comes only from the
\* INSERT, for an account that exists and a win or a lose that was covered
C36_Precedence ==
    [][\A p \in Calls :
          Step(p) =>
              LET u == transaction[p].UserID
                  short == /\ transaction[p].State = TxLose
                           /\ balance[p] < transaction[p].AmountMinor
              IN  /\ (pc[p] = "exists" /\ u \notin SeededUsers) =>
                         /\ pc'[p] = "rollback"
                         /\ err'[p] \in {ErrUserNotFound, ErrStorage}
                  /\ (pc[p] = "apply" /\ short) => err'[p] = ErrInsufficientFunds
                  /\ (err[p] = ErrNil /\ err'[p] = ErrInsufficientFunds) =>
                         pc[p] = "apply" /\ u \in SeededUsers
                  /\ (err[p] = ErrNil /\ err'[p] = ErrDuplicateTransaction) =>
                         pc[p] = "insert" /\ u \in SeededUsers /\ ~short]_vars

\* a lose with a committed transactionId on a balance below its amount has
\* returned ErrInsufficientFunds
C36_Witness ==
    \E p \in Calls :
        /\ Returned(p, ErrInsufficientFunds)
        /\ replay[p]
        /\ transaction[p].State = TxLose
        /\ users[transaction[p].UserID] < transaction[p].AmountMinor
        /\ \E r \in Calls \ {p} : Succeeded(r) /\ transaction[r] = transaction[p]

\* C37: DecreaseBalance and IncreaseBalance for an account without row write
\* nothing and take no row lock; DecreaseBalance returns ErrInsufficientFunds
\* and IncreaseBalance nil (a failure of the database apart), never
\* ErrUserNotFound; table users has the same rows afterwards
C37_MutatorsOnAbsentAccount ==
    /\ [](DOMAIN users = SeededUsers)
    /\ [][\A p \in Calls :
            (pc[p] = "unit" /\ transaction[p].UserID \notin SeededUsers /\ Step(p)) =>
                /\ written'[p] = NoWrite
                /\ rowLock' = rowLock
                /\ users' = users
                /\ transaction[p].State = TxLose =>
                       pc'[p] = "rollback" /\ err'[p] \in {ErrInsufficientFunds, ErrStorage}
                /\ transaction[p].State = TxWin =>
                       \/ pc'[p] = "commit" /\ err'[p] = ErrNil
                       \/ pc'[p] = "rollback" /\ err'[p] = ErrStorage]_vars

\* on an account without row an IncreaseBalance has returned nil and was
\* committed, and a DecreaseBalance has returned ErrInsufficientFunds
C37_Witness ==
    /\ transaction[1].UserID \notin SeededUsers
    /\ transaction[2].UserID \notin SeededUsers
    /\ transaction[1].State = TxWin
    /\ transaction[2].State = TxLose
    /\ Succeeded(1)
    /\ Returned(2, ErrInsufficientFunds)
    /\ transactions = {}
    /\ users = seeded

\* ---- the reference from transactions to users ----

\* every record, committed or pending, has the id of a row of users
RecordsReferenceAccounts ==
    /\ \A r \in transactions : r.user_id \in SeededUsers
    /\ \A p \in Calls : inserted[p] => transaction[p].UserID \in SeededUsers

\* call p runs Insert for an account id without row
InsertForAbsentAccount(p) ==
    /\ pc[p] = "insert"
    /\ transaction[p].UserID \notin SeededUsers
    /\ Step(p)

\* C38: Insert for an account id without row fails with a storage error that
\* is not ErrDuplicateTransaction and stores no record; every record has the
\* id of an existing account
C38_AbsentAccountInsertFails ==
    /\ []RecordsReferenceAccounts
    /\ [][\A p \in Calls :
            InsertForAbsentAccount(p) =>
                /\ pc'[p] = "rollback"
                /\ ~inserted'[p]
                /\ err'[p] = ErrStorage]_vars

\* C38, amended: Insert for an account id without row stores no record and
\* fails; with ErrDuplicateTransaction if a committed record has the
\* transactionId (the unique index is looked up before the reference), else
\* with a storage error; every record has the id of an existing account
C38_AbsentAccountInsertStoresNothing ==
    /\ []RecordsReferenceAccounts
    /\ [][\A p \in Calls :
            InsertForAbsentAccount(p) =>
                /\ pc'[p] = "rollback"
                /\ ~inserted'[p]
                /\ transactions' = transactions
                /\ err'[p] \in {ErrStorage, ErrDuplicateTransaction}
                /\ err'[p] = ErrDuplicateTransaction =>
                       KeyCommitted(transaction[p].TransactionID)]_vars

\* an Insert for an account id without row was refused as duplicate: the
\* transactionId has a committed record, of an account that exists
C38_Witness ==
    \E p \in Calls :
        /\ pc[p] = "rollback"
        /\ err[p] = ErrDuplicateTransaction
        /\ transaction[p].UserID \notin SeededUsers
        /\ \E r \in transactions :
              r.transaction_id = transaction[p].TransactionID /\ r.user_id \in SeededUsers

\* ---- cmd/api: run() and the order in which it stops what it started ----

\* the tasks of the process, by the number of the Add that passes them: OpenDB
\* registers the close of the pool, run() then the shutdown of the server
closeDB == 1
shutdownSrv == 2

\* what a task of the process can do: both wrap the error of the call they
\* make and return it
RunOutcomes == {"nil", "error"}

\* envconf.Load and logging.SetupJSON: run() returns before its defer when the
\* configuration does not load
Load ==
    /\ main.pc = "load"
    /\ \/ main' = [main EXCEPT !.pc = "open"]
       \/ main' = [main EXCEPT !.pc = "returned", !.cause = "init config"]
    /\ UNCHANGED <<queue, shutdown, events, vars, httpVars>>

\* pgutils.OpenDB and the return of run() on its error: sql.Open fails and
\* there is no pool; or the ping fails and the pool is closed at once; or the
\* close of the pool is added to the queue
OpenDB ==
    /\ main.pc = "open"
    /\ \/ /\ main' = [main EXCEPT !.pc = "deferred", !.cause = "open db"]
          /\ UNCHANGED <<queue, shutdown, events, vars, httpVars>>
       \/ /\ main' = [main EXCEPT !.pc = "deferred", !.cause = "open db", !.db = "closed"]
          /\ UNCHANGED <<queue, shutdown, events, vars, httpVars>>
       \/ /\ main' = [main EXCEPT !.pc = "server", !.db = "open"]
          /\ Add(closeDB)

\* NewServer, were the shutdown of the server not added to the queue
NewServerUnregistered ==
    /\ main.pc = "server"
    /\ main' = [main EXCEPT !.pc = "wait", !.srv = "serving"]
    /\ Add(nilTask)

\* balance.New, api.NewServer, the Add of the shutdown of the server and the
\* goroutine that runs ListenAndServe
NewServer ==
    /\ main.pc = "server"
    /\ main' = [main EXCEPT !.pc = "wait", !.srv = "serving"]
    /\ Add(shutdownSrv)

\* the select of run(): the context of the process is done (a signal), or
\* ListenAndServe has failed and sent its error
Wait ==
    /\ main.pc = "wait"
    /\ \/ main' = [main EXCEPT !.pc = "deferred", !.cause = "signal"]
       \/ main' = [main EXCEPT !.pc = "deferred", !.cause = "server error",
                               !.srv = "failed"]
    /\ UNCHANGED <<queue, shutdown, events, vars, httpVars>>

\* what a task leaves behind: db.Close closes the pool whatever it returns;
\* srv.Shutdown returns once no connection is left, or with the error of the
\* context when that is done first, connections still being served
Ran(t, outcome, done) ==
    CASE t = closeDB -> {[main EXCEPT !.db = "closed"]}
      [] t = shutdownSrv /\ outcome = "error" /\ done ->
            {[main EXCEPT !.srv = "shut down"], [main EXCEPT !.srv = "draining"]}
      [] t = shutdownSrv -> {[main EXCEPT !.srv = "shut down"]}
      [] OTHER -> {main}

\* the deferred function of run(): one call of Shutdown under a context with
\* the shutdown timeout, then the return of run()
Deferred ==
    /\ main.pc = "deferred"
    /\ \/ ShutdownTake(1) /\ UNCHANGED main
       \/ ShutdownSelect(1) /\ UNCHANGED main
       \/ \E outcome \in RunOutcomes :
            /\ ShutdownTask(1, outcome)
            /\ main' \in Ran(Pick(shutdown[1]), outcome, shutdown[1].done)
       \/ ShutdownCancel(1) /\ UNCHANGED main
       \/ /\ shutdown[1].pc = "done"
          /\ main' = [main EXCEPT !.pc = "returned"]
          /\ UNCHANGED <<queue, shutdown, events, vars, httpVars>>

\* func run(ctx), statement by statement
NextMain ==
    \/ Load
    \/ OpenDB
    \/ NewServer
    \/ Wait
    \/ Deferred

SpecMain == InitQueue /\ [][NextMain]_<<vars, httpVars, queueVars>>

\* the calls of Shutdown made so far
ShutdownsMade == Cardinality({k \in DOMAIN events : events[k].kind = "shutdown"})

\* the close of the pool was added to the queue before the shutdown of the server
RegisteredInOrder ==
    \A k \in DOMAIN events :
        events[k].kind = "add" /\ events[k].task = shutdownSrv
            => \E j \in 1 .. k - 1 : events[j].kind = "add" /\ events[j].task = closeDB

\* C39: when run() has returned because the context was canceled or the server
\* failed, Shutdown has been called exactly once (and never more than once
\* before); the close of the pool is registered before the shutdown of the
\* server, the close of the pool starts only after the shutdown of the server
\* has ended, and a pool closed by the queue finds the server shut down; when
\* OpenDB fails no task is registered and no pool is left open
C39_ServerBeforePool ==
    /\ ShutdownsMade <= 1
    /\ main.pc = "returned" /\ main.cause \in {"signal", "server error"}
        => ShutdownsMade = 1 /\ shutdown[1].pc = "done"
    /\ RegisteredInOrder
    /\ \A k \in DOMAIN events :
        events[k].kind = "start" /\ events[k].task = closeDB
            => \E j \in 1 .. k - 1 : events[j].kind = "end" /\ events[j].task = shutdownSrv
    /\ main.db = "closed" /\ main.cause \in {"signal", "server error"}
        => main.srv = "shut down"
    /\ main.cause = "open db"
        => /\ main.db \in {"none", "closed"}
           /\ \A k \in DOMAIN events : events[k].kind # "add"
           /\ queue.tasks = <<>>

\* run() has returned after a signal with both tasks run, the server first
C39_Witness ==
    /\ main.pc = "returned"
    /\ main.cause = "signal"
    /\ main.db = "closed"
    /\ main.srv = "shut down"
    /\ Len(events) = 7
    /\ events[4].kind = "start" /\ events[4].task = shutdownSrv
    /\ events[6].kind = "start" /\ events[6].task = closeDB

====
